---- MODULE Spec2Model ----
(***************************************************************************)
(* One-card limit poker: the hand state machine, the enumeration of the    *)
(* game tree and the CFR solver.                                           *)
(*                                                                         *)
(* Two implementations of the hand state machine live in the repository:   *)
(*   - the HandState class of one_card_limit/core/game_logic.py, whose     *)
(*     methods (_handle_check, _handle_bet, ...) are used for game play;   *)
(*   - the module-level functions of                                       *)
(*     one_card_limit/one_card_limit/core/game_logic.py (handle_check,     *)
(*     handle_bet, ...) over the HandState dataclass of core/state.py,     *)
(*     which the solver and the game tree call.                            *)
(* Both are modelled, each over a record shaped like its own class.  A     *)
(* behaviour fixes one implementation (impl) and one GameConfig at         *)
(* construction and then deals and applies actions.                        *)
(* Python positions are 0-based; sequences here are 1-based, so the list   *)
(* element of position p is index p + 1.                                   *)
(* The specifications share the variables: Spec plays hands; TreeSpec      *)
(* steps generate_all_handstates and build_game_tree call by call (tree);  *)
(* SolverSpec constructs a CFRStrategy on the built tree and trains it     *)
(* (solver), with Python floats as exact fractions; AbortSpec cancels an   *)
(* iteration part-way; ChoiceSpec samples weighted_random_choice;          *)
(* ParallelSpec runs update_regrets in two threads (workers);              *)
(* StrategySpec reads get_strategy between the passes of train;            *)
(* SnapshotSpec plays a hand while the caller holds an object made from    *)
(* it (held); EvalSpec calls calculate_ev on a trained solver; and         *)
(* ManagerSpec plays the hands of a GameManager session (manager).         *)
(***************************************************************************)
EXTENDS Integers, Sequences, FiniteSets, TLC

VARIABLES impl, hand, last, tree, solver, workers, held, manager

vars == <<impl, hand, last, tree, solver, workers, held, manager>>
handVars == <<impl, hand, last>>    \* the hand under play and the latest call on it

(***************************************************************************)
(* Bounds of the model.                                                    *)
(***************************************************************************)
MaxDeckSize == 3        \* largest deck_size tried
MaxRaisesTried == 3     \* largest max_raises tried (construction refuses 3)
MaxAnte == 2            \* largest ante tried
MaxActions == 6         \* cap on the length of the action history
MaxIterations == 1      \* cap on the CFR iterations of a solver
MaxUpdatesBeforeRaise == 2  \* most calls of update_regrets before a cancellation
MaxChoices == 3         \* largest number of actions of a sampled map
ProbBits == 2           \* probabilities sampled are multiples of 1 / 2^ProbBits

(***************************************************************************)
(* Action enum, Card, GameConfig.                                          *)
(***************************************************************************)
None == -1              \* Python's None, for winner_pos and undealt cards

CHECK == "check"
BET == "bet"
CALL == "call"
RAISE == "raise"
FOLD == "fold"

Action == {CHECK, BET, CALL, RAISE, FOLD}

NumRanks == 13          \* len(card_ranks)
MinDeckSize == 3
DeckSizeLimit == 13
RaisesLimit == 3

\* Every exception the hand state machine raises is a ValueError; only the
\* message tells one cause from another.  OK stands for a call that returned
\* normally.
ValueError(msg) == [type |-> "ValueError", msg |-> msg]
OK == [type |-> "none", msg |-> ""]
ErrHandOver == ValueError("Hand is already over")
ErrNotDealt == ValueError("Cards have not been dealt yet")
ErrInvalidAction == ValueError("Invalid action")
ErrNoRaises == ValueError("No raises left, can't raise")
ErrAlreadyDealt == ValueError("Cards already dealt.")
ErrValidNotDealt == ValueError("Cards not dealt")
ErrValidOver == ValueError("Hand is over")
ErrDeckSize == ValueError("Deck size must be between 3 and 13")
ErrMaxRaises == ValueError("Max raises must be between 0 and 2")

\* GameConfig.__post_init__: the error construction raises, OK when it succeeds.
\* ante is not looked at.
GameConfig_post_init(cfg) ==
    IF ~(MinDeckSize <= cfg.deck_size /\ cfg.deck_size <= DeckSizeLimit) THEN ErrDeckSize
    ELSE IF ~(0 <= cfg.max_raises /\ cfg.max_raises < RaisesLimit) THEN ErrMaxRaises
    ELSE OK

\* The configs tried, and those construction accepts.  ante is never
\* validated, so zero and negative antes are constructible.
ConfigsTried ==
    [deck_size : 2..MaxDeckSize, max_raises : 0..MaxRaisesTried, ante : (-1)..MaxAnte]

GameConfig == {cfg \in ConfigsTried : GameConfig_post_init(cfg) = OK}

\* GameConfig.get_deck / Deck.__init__: card_ranks[::-1][:deck_size], as card
\* values (index into card_ranks): Ace = 12 first, then downwards.
get_deck(cfg) == [i \in 1..cfg.deck_size |-> NumRanks - i]

\* random.shuffle(deck) followed by two deck.pop(): shuffle leaves the deck in
\* any order, so the two cards popped (the last, then the one before it) are
\* any ordered pair of cards at two different places of the deck.
shuffle_pop2(deck) ==
    {<<deck[i], deck[j]>> : i \in 1..Len(deck), j \in 1..Len(deck)} \
        {<<deck[i], deck[i]>> : i \in 1..Len(deck)}

\* Card.__gt__
Card_gt(a, b) == a > b

\* (acting_pos + 1) % 2
other(pos) == (pos + 1) % 2

(***************************************************************************)
(* The HandState class (core/game_logic.py).                               *)
(***************************************************************************)
\* HandState.__init__(config, deal_cards=False)
HandState_init(cfg) ==
    [config |-> cfg,
     cards |-> <<>>,
     actions |-> <<>>,
     stacks |-> <<-cfg.ante, -cfg.ante>>,
     acting_pos |-> 0,
     current_bet |-> 0,
     pot |-> 2 * cfg.ante,
     raises_made |-> 0,
     is_over |-> FALSE,
     showdown |-> FALSE,
     winner_pos |-> None,
     cards_dealt |-> FALSE]

\* HandState.deal_cards, d the two cards popped from the shuffled deck
HandState_deal_cards(s, d) ==
    IF s.cards_dealt THEN [err |-> ErrAlreadyDealt, state |-> s]
    ELSE [err |-> OK,
          state |-> [s EXCEPT !.cards = <<d[1], d[2]>>, !.cards_dealt = TRUE]]

\* Mutant of HandState.get_valid_actions: RAISE offered while
\* raises_made <= max_raises (off by one).
HandState_get_valid_actions_off_by_one(s) ==
    IF ~s.cards_dealt THEN [err |-> ErrValidNotDealt, valid |-> <<>>]
    ELSE IF s.is_over THEN [err |-> ErrValidOver, valid |-> <<>>]
    ELSE IF s.current_bet = 0 THEN [err |-> OK, valid |-> <<CHECK, BET>>]
    ELSE [err |-> OK,
          valid |-> IF s.raises_made <= s.config.max_raises
                    THEN <<CALL, FOLD, RAISE>>
                    ELSE <<CALL, FOLD>>]

\* HandState.get_valid_actions
HandState_get_valid_actions(s) ==
    IF ~s.cards_dealt THEN [err |-> ErrValidNotDealt, valid |-> <<>>]
    ELSE IF s.is_over THEN [err |-> ErrValidOver, valid |-> <<>>]
    ELSE IF s.current_bet = 0 THEN [err |-> OK, valid |-> <<CHECK, BET>>]
    ELSE [err |-> OK,
          valid |-> IF s.raises_made < s.config.max_raises
                    THEN <<CALL, FOLD, RAISE>>
                    ELSE <<CALL, FOLD>>]

_handle_check(s) ==
    IF s.acting_pos = 1
    THEN [err |-> OK, state |-> [s EXCEPT !.is_over = TRUE, !.showdown = TRUE]]
    ELSE [err |-> OK, state |-> s]

_handle_bet(s) ==
    LET cb == s.config.ante IN
    [err |-> OK,
     state |-> [s EXCEPT !.current_bet = cb,
                         !.pot = @ + cb,
                         !.stacks[s.acting_pos + 1] = @ - cb]]

_handle_call(s) ==
    [err |-> OK,
     state |-> [s EXCEPT !.pot = @ + s.current_bet,
                         !.stacks[s.acting_pos + 1] = @ - s.current_bet,
                         !.is_over = TRUE,
                         !.showdown = TRUE]]

\* Mutant of HandState._handle_raise: the stack is debited by the increment
\* new_bet - current_bet while the pot still gets new_bet.
_handle_raise_incremental_debit(s) ==
    IF s.raises_made < s.config.max_raises
    THEN LET new_bet == s.current_bet * 2 IN
         [err |-> OK,
          state |-> [s EXCEPT !.current_bet = new_bet - s.current_bet,
                              !.pot = @ + new_bet,
                              !.stacks[s.acting_pos + 1] = @ - (new_bet - s.current_bet),
                              !.raises_made = @ + 1]]
    ELSE [err |-> ErrNoRaises, state |-> s]

\* Mutant of HandState._handle_raise: current_bet becomes new_bet, so the
\* call that follows pays the whole bet and not what is outstanding.
_handle_raise_bet_doubled(s) ==
    IF s.raises_made < s.config.max_raises
    THEN LET new_bet == s.current_bet * 2 IN
         [err |-> OK,
          state |-> [s EXCEPT !.current_bet = new_bet,
                              !.pot = @ + new_bet,
                              !.stacks[s.acting_pos + 1] = @ - new_bet,
                              !.raises_made = @ + 1]]
    ELSE [err |-> ErrNoRaises, state |-> s]

\* current_bet becomes new_bet - current_bet, which is the old current_bet.
_handle_raise(s) ==
    IF s.raises_made < s.config.max_raises
    THEN LET new_bet == s.current_bet * 2 IN
         [err |-> OK,
          state |-> [s EXCEPT !.current_bet = new_bet - s.current_bet,
                              !.pot = @ + new_bet,
                              !.stacks[s.acting_pos + 1] = @ - new_bet,
                              !.raises_made = @ + 1]]
    ELSE [err |-> ErrNoRaises, state |-> s]

_handle_fold(s) ==
    [err |-> OK,
     state |-> [s EXCEPT !.winner_pos = other(s.acting_pos), !.is_over = TRUE]]

\* Mutant of HandState._end_hand: the comparison is the wrong way round.
_end_hand_lower_wins(s) ==
    LET w == IF s.showdown
             THEN (IF Card_gt(s.cards[2], s.cards[1]) THEN 0 ELSE 1)
             ELSE s.winner_pos
    IN [s EXCEPT !.winner_pos = w, !.stacks[w + 1] = @ + s.pot]

\* HandState._end_hand (called only with is_over true)
_end_hand(s) ==
    LET w == IF s.showdown
             THEN (IF Card_gt(s.cards[1], s.cards[2]) THEN 0 ELSE 1)
             ELSE s.winner_pos
    IN [s EXCEPT !.winner_pos = w, !.stacks[w + 1] = @ + s.pot]

\* the match statement of HandState.process_action
HandState_dispatch(s, action) ==
    CASE action = CHECK -> _handle_check(s)
      [] action = BET -> _handle_bet(s)
      [] action = CALL -> _handle_call(s)
      [] action = RAISE -> _handle_raise(s)
      [] action = FOLD -> _handle_fold(s)

\* Mutant of the checks of HandState.process_action: the is_over test is
\* missing, so a terminal hand falls through to get_valid_actions.
HandState_process_action_check_no_over(s, action) ==
    IF ~s.cards_dealt THEN ErrNotDealt
    ELSE LET v == HandState_get_valid_actions(s) IN
         IF v.err # OK THEN v.err
         ELSE IF \A i \in 1..Len(v.valid) : v.valid[i] # action THEN ErrInvalidAction
         ELSE OK

\* the checks at the head of HandState.process_action: the error raised, or OK
HandState_process_action_check(s, action) ==
    IF s.is_over THEN ErrHandOver
    ELSE IF ~s.cards_dealt THEN ErrNotDealt
    ELSE LET v == HandState_get_valid_actions(s) IN
         IF v.err # OK THEN v.err
         ELSE IF \A i \in 1..Len(v.valid) : v.valid[i] # action THEN ErrInvalidAction
         ELSE OK

\* Mutant of HandState.process_action: the acting position is switched only
\* when the hand goes on.
HandState_process_action_no_switch_at_end(s, action) ==
    LET e == HandState_process_action_check(s, action) IN
    IF e # OK THEN [err |-> e, state |-> s]
    ELSE LET s1 == [s EXCEPT !.actions = Append(@, action)]
             h == HandState_dispatch(s1, action)
         IN IF h.err # OK
            THEN [err |-> h.err, state |-> h.state]
            ELSE [err |-> OK,
                  state |-> IF h.state.is_over THEN _end_hand(h.state)
                            ELSE [h.state EXCEPT !.acting_pos = other(@)]]

\* HandState.process_action(action), action an Action member
HandState_process_action(s, action) ==
    LET e == HandState_process_action_check(s, action) IN
    IF e # OK THEN [err |-> e, state |-> s]
    ELSE LET s1 == [s EXCEPT !.actions = Append(@, action)]
             h == HandState_dispatch(s1, action)
         IN IF h.err # OK
            THEN [err |-> h.err, state |-> h.state]
            ELSE LET s2 == [h.state EXCEPT !.acting_pos = other(@)]
                 IN [err |-> OK, state |-> IF s2.is_over THEN _end_hand(s2) ELSE s2]

(***************************************************************************)
(* The module-level state machine (one_card_limit/core/game_logic.py of    *)
(* the inner package) over the HandState dataclass of core/state.py.       *)
(***************************************************************************)
\* HandState.__post_init__ of core/state.py with an empty players list
HandState_post_init(cfg) ==
    [game_rules |-> cfg,
     players |-> <<[pos |-> 0, stack |-> -cfg.ante, card |-> None],
                   [pos |-> 1, stack |-> -cfg.ante, card |-> None]>>,
     acting_pos |-> 0,
     current_bet |-> 0,
     pot |-> 2 * cfg.ante,
     raises_made |-> 0,
     is_over |-> FALSE,
     showdown |-> FALSE,
     actions_taken |-> <<>>,
     winner_pos |-> None]

\* HandState.cards_dealt property
cards_dealt(s) == \A i \in 1..Len(s.players) : s.players[i].card # None

\* deal_cards(state), d the two cards popped from the shuffled deck: each player
\* in turn gets deck.pop().  Nothing is checked: a dealt state is dealt again.
deal_cards(s, d) ==
    [err |-> OK,
     state |-> [s EXCEPT !.players[1].card = d[1], !.players[2].card = d[2]]]

\* Mutant of get_valid_actions: RAISE offered whenever a bet is outstanding.
get_valid_actions_always_raise(s) ==
    IF ~cards_dealt(s) \/ s.is_over THEN [err |-> OK, valid |-> <<>>]
    ELSE IF s.current_bet = 0 THEN [err |-> OK, valid |-> <<CHECK, BET>>]
    ELSE [err |-> OK, valid |-> <<CALL, FOLD, RAISE>>]

\* get_valid_actions(state)
get_valid_actions(s) ==
    IF ~cards_dealt(s) \/ s.is_over THEN [err |-> OK, valid |-> <<>>]
    ELSE IF s.current_bet = 0 THEN [err |-> OK, valid |-> <<CHECK, BET>>]
    ELSE [err |-> OK,
          valid |-> IF s.raises_made < s.game_rules.max_raises
                    THEN <<CALL, FOLD, RAISE>>
                    ELSE <<CALL, FOLD>>]

handle_check(s) ==
    IF s.acting_pos = 1
    THEN [err |-> OK, state |-> [s EXCEPT !.is_over = TRUE, !.showdown = TRUE]]
    ELSE [err |-> OK, state |-> s]

\* Mutant of handle_bet: the bet is one chip whatever the ante.
handle_bet_unit(s) ==
    [err |-> OK,
     state |-> [s EXCEPT !.current_bet = 1,
                         !.pot = @ + 1,
                         !.players[s.acting_pos + 1].stack = @ - 1]]

handle_bet(s) ==
    LET cb == s.game_rules.ante IN
    [err |-> OK,
     state |-> [s EXCEPT !.current_bet = cb,
                         !.pot = @ + cb,
                         !.players[s.acting_pos + 1].stack = @ - cb]]

handle_call(s) ==
    [err |-> OK,
     state |-> [s EXCEPT !.pot = @ + s.current_bet,
                         !.players[s.acting_pos + 1].stack = @ - s.current_bet,
                         !.is_over = TRUE,
                         !.showdown = TRUE]]

handle_raise(s) ==
    IF s.raises_made < s.game_rules.max_raises
    THEN LET new_bet == s.current_bet * 2 IN
         [err |-> OK,
          state |-> [s EXCEPT !.current_bet = new_bet,
                              !.pot = @ + new_bet,
                              !.players[s.acting_pos + 1].stack = @ - new_bet,
                              !.raises_made = @ + 1]]
    ELSE [err |-> ErrNoRaises, state |-> s]

\* Mutant of handle_fold: the folding player is made the winner.
handle_fold_self_wins(s) ==
    [err |-> OK,
     state |-> [s EXCEPT !.winner_pos = s.acting_pos, !.is_over = TRUE]]

handle_fold(s) ==
    [err |-> OK,
     state |-> [s EXCEPT !.winner_pos = other(s.acting_pos), !.is_over = TRUE]]

\* end_hand(state): max(state.players, key=card) keeps the first player unless
\* the second one's card is greater.
end_hand(s) ==
    LET w == IF s.showdown
             THEN (IF Card_gt(s.players[2].card, s.players[1].card)
                   THEN s.players[2].pos ELSE s.players[1].pos)
             ELSE s.winner_pos
    IN [s EXCEPT !.is_over = TRUE,
                 !.winner_pos = w,
                 !.players[w + 1].stack = @ + s.pot]

\* the match statement of process_action
dispatch(s, action) ==
    CASE action = CHECK -> handle_check(s)
      [] action = BET -> handle_bet(s)
      [] action = CALL -> handle_call(s)
      [] action = RAISE -> handle_raise(s)
      [] action = FOLD -> handle_fold(s)

\* the checks at the head of process_action: the error raised, or OK
process_action_check(s, action) ==
    IF s.is_over THEN ErrHandOver
    ELSE IF ~cards_dealt(s) THEN ErrNotDealt
    ELSE LET v == get_valid_actions(s) IN
         IF \A i \in 1..Len(v.valid) : v.valid[i] # action THEN ErrInvalidAction
         ELSE OK

\* Mutant of process_action: the action is recorded in the history before the
\* checks are made.
process_action_record_first(s, action) ==
    LET s1 == [s EXCEPT !.actions_taken = Append(@, <<s.acting_pos, action>>)]
        e == process_action_check(s, action)
    IN IF e # OK THEN [err |-> e, state |-> s1]
       ELSE LET h == dispatch(s1, action) IN
            IF h.err # OK
            THEN [err |-> h.err, state |-> h.state]
            ELSE LET s2 == [h.state EXCEPT !.acting_pos = other(@)]
                 IN [err |-> OK, state |-> IF s2.is_over THEN end_hand(s2) ELSE s2]

\* process_action(state, action)
process_action(s, action) ==
    LET e == process_action_check(s, action) IN
    IF e # OK THEN [err |-> e, state |-> s]
    ELSE LET s1 == [s EXCEPT !.actions_taken = Append(@, <<s.acting_pos, action>>)]
             h == dispatch(s1, action)
         IN IF h.err # OK
            THEN [err |-> h.err, state |-> h.state]
            ELSE LET s2 == [h.state EXCEPT !.acting_pos = other(@)]
                 IN [err |-> OK, state |-> IF s2.is_over THEN end_hand(s2) ELSE s2]

(***************************************************************************)
(* Views of a hand state that do not depend on the implementation.         *)
(***************************************************************************)
METHOD == "method"      \* HandState class and its methods
MODULE_LEVEL == "module" \* module-level functions over the dataclass

Config(s) == IF impl = METHOD THEN s.config ELSE s.game_rules
Stacks(s) == IF impl = METHOD THEN s.stacks
             ELSE <<s.players[1].stack, s.players[2].stack>>
Cards(s) == IF impl = METHOD THEN s.cards
            ELSE <<s.players[1].card, s.players[2].card>>
History(s) == IF impl = METHOD THEN s.actions
              ELSE [i \in 1..Len(s.actions_taken) |-> s.actions_taken[i][2]]
Dealt(s) == IF impl = METHOD THEN s.cards_dealt ELSE cards_dealt(s)
Range(q) == {q[i] : i \in 1..Len(q)}

(***************************************************************************)
(* Other ways to a dealt HandState: HandState.from_cards,                  *)
(* HandState.from_cards_actions, and the deals of the two enumerations.    *)
(***************************************************************************)
ErrIndex == [type |-> "IndexError", msg |-> "list index out of range"]
ErrTwoCards == ValueError("Must provide exactly 2 cards")
ErrUnique == ValueError("Cards must be unique")
ErrNotInDeck == ValueError("Cards must be in the deck")
ErrListRemove == ValueError("list.remove(x): x not in list")
\* from_cards given [None, None]: `while None in cards` never ends.
NoReturn == [type |-> "no return", msg |-> "while None in cards"]

\* GameConfig.get_all_card_combos: for i < j the pair (deck[i], deck[j]) and
\* then the pair (deck[j], deck[i]).
RECURSIVE get_all_card_combos_from(_, _, _)
get_all_card_combos_from(deck, i, j) ==
    IF i > Len(deck) THEN <<>>
    ELSE IF j > Len(deck) THEN get_all_card_combos_from(deck, i + 1, i + 2)
    ELSE <<<<deck[i], deck[j]>>, <<deck[j], deck[i]>>>> \o
         get_all_card_combos_from(deck, i, j + 1)

get_all_card_combos(cfg) == get_all_card_combos_from(get_deck(cfg), 1, 2)

\* Mutant of permutations: each pair of cards in one order only.
RECURSIVE permutations_from_one_order(_, _, _)
permutations_from_one_order(deck, i, j) ==
    IF i > Len(deck) THEN <<>>
    ELSE IF j > Len(deck) THEN permutations_from_one_order(deck, i + 1, 1)
    ELSE (IF i >= j THEN <<>> ELSE <<<<deck[i], deck[j]>>>>) \o
         permutations_from_one_order(deck, i, j + 1)

\* itertools.permutations(deck.cards, 2): (deck[i], deck[j]) for each i and
\* then each j other than i, in index order.
RECURSIVE permutations_from(_, _, _)
permutations_from(deck, i, j) ==
    IF i > Len(deck) THEN <<>>
    ELSE IF j > Len(deck) THEN permutations_from(deck, i + 1, 1)
    ELSE (IF i = j THEN <<>> ELSE <<<<deck[i], deck[j]>>>>) \o
         permutations_from(deck, i, j + 1)

permutations(deck) == permutations_from(deck, 1, 1)

\* Mutant of from_cards' loop body: the card held is not removed from the
\* deck before the other card is drawn.
from_cards_pass_no_remove(outs, pos) ==
    UNION { IF o.err # OK \/ o.cards[pos + 1] = None THEN {o}
            ELSE {[o EXCEPT !.deck = o.deck \ {d},
                            !.cards[other(pos) + 1] = d] : d \in o.deck}
          : o \in outs }

\* One pass of the body of from_cards' for loop at position pos, from every
\* outcome so far: a Card at pos is removed from the deck (ValueError when it
\* is not there), the deck is shuffled and the card popped goes to the other
\* position.
from_cards_pass(outs, pos) ==
    UNION { IF o.err # OK \/ o.cards[pos + 1] = None THEN {o}
            ELSE IF o.cards[pos + 1] \notin o.deck
                 THEN {[o EXCEPT !.err = ErrListRemove]}
                 ELSE LET left == o.deck \ {o.cards[pos + 1]} IN
                      {[o EXCEPT !.deck = left \ {d},
                                 !.cards[other(pos) + 1] = d] : d \in left}
          : o \in outs }

\* HandState.from_cards(config, cards): the outcomes it can have, each the
\* error raised (OK when it returns) and the HandState returned (None when
\* it raises).
HandState_from_cards(cfg, cards) ==
    LET deck == {get_deck(cfg)[i] : i \in 1..cfg.deck_size}
        made(cs) == [err |-> OK,
                     state |-> [HandState_init(cfg) EXCEPT !.cards = cs,
                                                           !.cards_dealt = TRUE]]
        fail(e) == [err |-> e, state |-> None]
    IN IF Len(cards) # 2 THEN {fail(ErrTwoCards)}
       ELSE IF cards[1] # None /\ cards[2] # None
       THEN IF cards[1] = cards[2] THEN {fail(ErrUnique)}
            ELSE IF cards[1] \notin deck \/ cards[2] \notin deck
                 THEN {fail(ErrNotInDeck)}
                 ELSE {made(cards)}
       ELSE IF cards[1] = None /\ cards[2] = None THEN {fail(NoReturn)}
       ELSE {IF o.err = OK THEN made(o.cards) ELSE fail(o.err) :
                o \in from_cards_pass(
                         from_cards_pass({[err |-> OK, cards |-> cards, deck |-> deck]}, 0),
                         1)}

\* The for loop of from_cards_actions: process_action of each action in turn,
\* the first error ending it.
RECURSIVE HandState_apply_actions(_, _)
\* Mutant of the for loop: an action that process_action refuses is skipped
\* and the loop goes on with the actions after it.
HandState_apply_actions_skipping_refused(r, actions) ==
    IF actions = <<>> THEN r
    ELSE LET n == HandState_process_action(r.state, Head(actions))
         IN HandState_apply_actions(IF n.err = OK THEN n ELSE r, Tail(actions))

HandState_apply_actions(r, actions) ==
    IF r.err # OK \/ actions = <<>> THEN r
    ELSE HandState_apply_actions(HandState_process_action(r.state, Head(actions)),
                                 Tail(actions))

\* HandState.from_cards_actions(config, cards, actions)
HandState_from_cards_actions(cfg, cards, actions) ==
    {HandState_apply_actions(r, actions) : r \in HandState_from_cards(cfg, cards)}

\* generate_all_handstates: the initial state of one card combination.
generate_initial_state(cfg, cards) ==
    [HandState_init(cfg) EXCEPT !.cards = cards, !.cards_dealt = TRUE]

\* GameNode.build_children on a node whose cards are not dealt: the child
\* state of one permutation.
build_deal_child(s, cards) ==
    [s EXCEPT !.players[1].card = cards[1], !.players[2].card = cards[2]]

\* The state of the game-tree node reached from the root by the deal cards and
\* then the actions: each child is a clone of its parent with process_action.
RECURSIVE tree_apply_actions(_, _)
tree_apply_actions(r, actions) ==
    IF r.err # OK \/ actions = <<>> THEN r
    ELSE tree_apply_actions(process_action(r.state, Head(actions)), Tail(actions))

tree_node_state(cfg, cards, actions) ==
    tree_apply_actions([err |-> OK, state |-> build_deal_child(HandState_post_init(cfg), cards)],
                       actions)

(***************************************************************************)
(* InfoState: the InfoState class of core/game_logic.py, returned by       *)
(* HandState.get_info_state, and the InfoState dataclass of                *)
(* strategy/info_set.py, returned by the module-level get_info_state.      *)
(***************************************************************************)
\* result: Optional[int] = None, as a list: empty for None, else the one value
\* (a stack delta of -1 is a result, not None).
NoResult == <<>>

\* Mutant of HandState.get_info_state: the card of the other position.
HandState_get_info_state_other_card(s, player_pos) ==
    IF Len(s.cards) <= player_pos THEN [err |-> ErrIndex, info |-> None]
    ELSE [err |-> OK,
          info |-> [pos |-> player_pos,
                    card |-> s.cards[other(player_pos) + 1],
                    actions |-> s.actions,
                    valid_actions |-> IF ~s.is_over
                                      THEN HandState_get_valid_actions(s).valid
                                      ELSE <<>>,
                    result |-> IF s.is_over THEN <<s.stacks[player_pos + 1]>>
                               ELSE NoResult]]

\* HandState.get_info_state(player_pos), player_pos 0 or 1
HandState_get_info_state(s, player_pos) ==
    IF Len(s.cards) <= player_pos THEN [err |-> ErrIndex, info |-> None]
    ELSE [err |-> OK,
          info |-> [pos |-> player_pos,
                    card |-> s.cards[player_pos + 1],
                    actions |-> s.actions,
                    valid_actions |-> IF ~s.is_over
                                      THEN HandState_get_valid_actions(s).valid
                                      ELSE <<>>,
                    result |-> IF s.is_over THEN <<s.stacks[player_pos + 1]>>
                               ELSE NoResult]]

\* InfoState.__eq__ (core/game_logic.py): card and actions
InfoState_eq(a, b) == a.card = b.card /\ a.actions = b.actions

\* InfoState.__hash__ (core/game_logic.py): hash((pos, card, tuple(actions))),
\* as the tuple that is hashed.
InfoState_hash(a) == <<a.pos, a.card, a.actions>>

\* get_info_state(state, pos) of strategy/info_set.py
get_info_state(s, pos) ==
    [pos |-> pos,
     card |-> s.players[pos + 1].card,
     actions_taken |-> s.actions_taken,
     result |-> IF s.is_over THEN <<s.players[pos + 1].stack>> ELSE NoResult]

\* InfoState.actions (strategy/info_set.py): the actions without the positions
InfoState_actions(a) == [i \in 1..Len(a.actions_taken) |-> a.actions_taken[i][2]]

\* InfoState.__str__ (strategy/info_set.py): the card, "-" and the actions
\* when there are any, "-(result)" when there is a result; as the parts the
\* string is made of, from which the string can be read back.
InfoState_str(a) ==
    [card |-> a.card, actions |-> InfoState_actions(a), result |-> a.result]

\* The __eq__ the dataclass decorator generates (strategy/info_set.py):
\* every field, pos and result included.
dataclass_eq(a, b) ==
    <<a.pos, a.card, a.actions_taken, a.result>> =
    <<b.pos, b.card, b.actions_taken, b.result>>

\* InfoState.__hash__ (strategy/info_set.py): hash(self.__str__())
dataclass_hash(a) == InfoState_str(a)

(***************************************************************************)
(* The state machine: construction, then calls in any order.  last         *)
(* records the latest call: the operation, its action argument, the error  *)
(* it raised (OK when none), the list it returned and the hand state it    *)
(* was called on.                                                          *)
(***************************************************************************)
Call(op, action, err, valid, pre) ==
    [op |-> op, action |-> action, err |-> err, valid |-> valid, pre |-> pre]

\* No game tree is being enumerated (no call pending, nothing produced), no
\* solver exists and no worker thread runs while a hand is played.
NoTree == [stack |-> <<>>, out |-> <<>>, err |-> OK]
NoSolver == [phase |-> "none"]
NoWorkers == <<>>

\* The caller holds no other object that was made from the hand.
NoneHeld == [kind |-> "none"]

\* No GameManager is constructed.
NoManager == [pc |-> "none"]

Init ==
    /\ impl \in {METHOD, MODULE_LEVEL}
    /\ \E cfg \in GameConfig :
          hand = IF impl = METHOD THEN HandState_init(cfg) ELSE HandState_post_init(cfg)
    /\ last = Call("init", "none", OK, <<>>, hand)
    /\ tree = NoTree
    /\ solver = NoSolver
    /\ workers = NoWorkers
    /\ held = NoneHeld
    /\ manager = NoManager

DealCardsMethod ==
    /\ impl = METHOD
    /\ \E d \in shuffle_pop2(get_deck(hand.config)) :
          LET r == HandState_deal_cards(hand, d) IN
          /\ hand' = r.state
          /\ last' = Call("deal_cards", "none", r.err, <<>>, hand)
    /\ UNCHANGED <<impl, tree, solver, workers, held, manager>>

DealCardsModule ==
    /\ impl = MODULE_LEVEL
    /\ \E d \in shuffle_pop2(get_deck(hand.game_rules)) :
          LET r == deal_cards(hand, d) IN
          /\ hand' = r.state
          /\ last' = Call("deal_cards", "none", r.err, <<>>, hand)
    /\ UNCHANGED <<impl, tree, solver, workers, held, manager>>

GetValidActionsMethod ==
    /\ impl = METHOD
    /\ LET r == HandState_get_valid_actions(hand) IN
       last' = Call("get_valid_actions", "none", r.err, r.valid, hand)
    /\ UNCHANGED <<impl, hand, tree, solver, workers, held, manager>>

GetValidActionsModule ==
    /\ impl = MODULE_LEVEL
    /\ LET r == get_valid_actions(hand) IN
       last' = Call("get_valid_actions", "none", r.err, r.valid, hand)
    /\ UNCHANGED <<impl, hand, tree, solver, workers, held, manager>>

ProcessActionMethod ==
    /\ impl = METHOD
    /\ \E action \in Action :
          LET r == HandState_process_action(hand, action) IN
          /\ r.err # OK \/ Len(hand.actions) < MaxActions
          /\ hand' = r.state
          /\ last' = Call("process_action", action, r.err, <<>>, hand)
    /\ UNCHANGED <<impl, tree, solver, workers, held, manager>>

ProcessActionModule ==
    /\ impl = MODULE_LEVEL
    /\ \E action \in Action :
          LET r == process_action(hand, action) IN
          /\ r.err # OK \/ Len(hand.actions_taken) < MaxActions
          /\ hand' = r.state
          /\ last' = Call("process_action", action, r.err, <<>>, hand)
    /\ UNCHANGED <<impl, tree, solver, workers, held, manager>>

\* The cards handed to from_cards: the deck's cards, the card just below the
\* deck's lowest (a Card that is not in the deck) and None.
CardsTried(cfg) ==
    {get_deck(cfg)[i] : i \in 1..cfg.deck_size} \cup {None, NumRanks - cfg.deck_size - 1}

\* HandState.from_cards(config, cards) in place of the plain constructor.
FromCardsMethod ==
    /\ impl = METHOD
    /\ hand = HandState_init(hand.config)
    /\ \E c0 \in CardsTried(hand.config), c1 \in CardsTried(hand.config) :
          \E r \in HandState_from_cards(hand.config, <<c0, c1>>) :
              /\ hand' = IF r.err = OK THEN r.state ELSE hand
              /\ last' = [op |-> "from_cards", action |-> "none", err |-> r.err,
                          valid |-> <<>>, pre |-> hand, cards |-> <<c0, c1>>]
    /\ UNCHANGED <<impl, tree, solver, workers, held, manager>>

\* generate_all_handstates: the initial state of one of the card combinations.
DealCombosMethod ==
    /\ impl = METHOD
    /\ hand = HandState_init(hand.config)
    /\ \E k \in 1..Len(get_all_card_combos(hand.config)) :
          hand' = generate_initial_state(hand.config, get_all_card_combos(hand.config)[k])
    /\ last' = Call("generate_all_handstates", "none", OK, <<>>, hand)
    /\ UNCHANGED <<impl, tree, solver, workers, held, manager>>

\* GameNode.build_children on the root: the child of one permutation.
DealChildModule ==
    /\ impl = MODULE_LEVEL
    /\ ~hand.is_over
    /\ ~cards_dealt(hand)
    /\ \E k \in 1..Len(permutations(get_deck(hand.game_rules))) :
          hand' = build_deal_child(hand, permutations(get_deck(hand.game_rules))[k])
    /\ last' = Call("build_children", "none", OK, <<>>, hand)
    /\ UNCHANGED <<impl, tree, solver, workers, held, manager>>

Next ==
    \/ DealCardsMethod
    \/ DealCardsModule
    \/ GetValidActionsMethod
    \/ GetValidActionsModule
    \/ ProcessActionMethod
    \/ ProcessActionModule
    \/ FromCardsMethod
    \/ DealCombosMethod
    \/ DealChildModule

Spec == Init /\ [][Next]_vars

(***************************************************************************)
(* Properties of the hand state machine.                                   *)
(***************************************************************************)
\* The implementation's own get_valid_actions and process_action.
ValidActions(s) ==
    IF impl = METHOD THEN HandState_get_valid_actions(s) ELSE get_valid_actions(s)
ProcessAction(s, action) ==
    IF impl = METHOD THEN HandState_process_action(s, action)
    ELSE process_action(s, action)

Sum(q) == q[1] + q[2]
Applied(action) ==
    last.op = "process_action" /\ last.action = action /\ last.err = OK
Actor == last.pre.acting_pos        \* who acted in the latest process_action

\* C1: while the hand is not over pot = -(stack delta 0 + stack delta 1); in a
\* terminal state the stack deltas sum to zero, the winner being credited
\* exactly the pot: taking the pot back from the winner restores pot = -sum.
C1_PotMatchesStacks ==
    /\ ~hand.is_over => hand.pot = -Sum(Stacks(hand))
    /\ hand.is_over =>
          /\ Sum(Stacks(hand)) = 0
          /\ hand.winner_pos \in {0, 1}
          /\ hand.pot = -(Sum(Stacks(hand)) - hand.pot)
          /\ last.op = "process_action" /\ last.err = OK =>
                /\ hand.pot = -Sum(Stacks(last.pre)) +
                       (IF last.action = CALL THEN last.pre.current_bet ELSE 0)
                /\ Stacks(hand)[other(hand.winner_pos) + 1] =
                       Stacks(last.pre)[other(hand.winner_pos) + 1] -
                       (IF last.action = CALL /\ Actor # hand.winner_pos
                        THEN last.pre.current_bet ELSE 0)

\* C1 witness: a showdown reached after a raise, the pot above the antes.
C1_Witness ==
    /\ hand.is_over /\ hand.showdown /\ hand.raises_made >= 1
    /\ hand.pot > 2 * Config(hand).ante
    /\ Applied(CALL)

\* The legal set the rules give for a dealt, non-terminal state.
LegalSet(s) ==
    IF s.current_bet = 0 THEN {CHECK, BET}
    ELSE {CALL, FOLD} \cup
         (IF s.raises_made < Config(s).max_raises THEN {RAISE} ELSE {})

\* C2: in a dealt, non-terminal state get_valid_actions returns exactly
\* {CHECK, BET} when current_bet = 0 and {CALL, FOLD} plus RAISE iff
\* raises_made < max_raises otherwise, never the empty list, and process_action
\* of each returned action succeeds.
C2_ValidActionsLegal ==
    /\ Dealt(hand) /\ ~hand.is_over =>
          LET v == ValidActions(hand) IN
          /\ v.err = OK
          /\ Range(v.valid) = LegalSet(hand)
          /\ Len(v.valid) = Cardinality(LegalSet(hand))
          /\ v.valid # <<>>
          /\ \A a \in Range(v.valid) : ProcessAction(hand, a).err = OK
    /\ last.op = "get_valid_actions" /\ Dealt(last.pre) /\ ~last.pre.is_over =>
          /\ last.err = OK
          /\ Range(last.valid) = LegalSet(last.pre)
          /\ last.valid # <<>>
    /\ last.op = "process_action" /\ Dealt(last.pre) /\ ~last.pre.is_over
         /\ last.action \in Range(ValidActions(last.pre).valid) => last.err = OK

\* C2 witness: get_valid_actions called with a bet outstanding and the raise
\* bound reached after a raise was made, returning CALL and FOLD only.
C2_Witness ==
    /\ last.op = "get_valid_actions" /\ last.err = OK
    /\ hand.raises_made = Config(hand).max_raises /\ hand.raises_made >= 1
    /\ Range(last.valid) = {CALL, FOLD}

\* C3: a legal RAISE sets current_bet to twice its previous value, adds the new
\* value to pot, subtracts it from the acting player's stack delta, increments
\* raises_made and passes control without ending the hand.
C3_RaiseDoublesBet ==
    Applied(RAISE) =>
        /\ hand.current_bet = 2 * last.pre.current_bet
        /\ hand.pot = last.pre.pot + hand.current_bet
        /\ Stacks(hand)[Actor + 1] = Stacks(last.pre)[Actor + 1] - hand.current_bet
        /\ Stacks(hand)[other(Actor) + 1] = Stacks(last.pre)[other(Actor) + 1]
        /\ hand.raises_made = last.pre.raises_made + 1
        /\ hand.acting_pos = other(Actor)
        /\ ~hand.is_over

\* C3 witness: a RAISE applied by the HandState method over a non-zero bet.
C3_Witness ==
    impl = METHOD /\ Applied(RAISE) /\ last.pre.current_bet > 0

\* C4: raises_made never exceeds max_raises, and process_action(RAISE) on a
\* dealt, non-terminal state fails with the invalid-action error whenever
\* raises_made = max_raises and whenever no bet is outstanding, changing nothing.
C4_RaiseBound ==
    /\ hand.raises_made <= Config(hand).max_raises
    /\ Dealt(hand) /\ ~hand.is_over
         /\ (hand.raises_made = Config(hand).max_raises \/ hand.current_bet = 0) =>
          ProcessAction(hand, RAISE) = [err |-> ErrInvalidAction, state |-> hand]
    /\ last.op = "process_action" /\ last.action = RAISE
         /\ Dealt(last.pre) /\ ~last.pre.is_over
         /\ (last.pre.raises_made = Config(last.pre).max_raises
               \/ last.pre.current_bet = 0) =>
          last.err = ErrInvalidAction /\ hand = last.pre

\* C4 witness: a RAISE refused with a bet outstanding because the raise bound
\* was reached by raises actually made.
C4_Witness ==
    /\ last.op = "process_action" /\ last.action = RAISE
    /\ last.err = ErrInvalidAction
    /\ last.pre.current_bet # 0
    /\ last.pre.raises_made = Config(last.pre).max_raises
    /\ last.pre.raises_made >= 1

\* C5: once the hand is over, process_action of any of the five actions fails
\* with the hand-already-over error and leaves every field of the HandState
\* (cards, stack deltas, pot, current_bet, raises_made, acting_pos, history,
\* showdown, winner_pos) as it was.
C5_TerminalRefusesActions ==
    /\ hand.is_over =>
          \A a \in Action :
              ProcessAction(hand, a) = [err |-> ErrHandOver, state |-> hand]
    /\ last.op = "process_action" /\ last.pre.is_over =>
          last.err = ErrHandOver /\ hand = last.pre

\* C5 witness: process_action refused on a hand that ended at a showdown.
C5_Witness ==
    /\ last.op = "process_action" /\ last.err = ErrHandOver
    /\ last.pre.is_over /\ last.pre.showdown /\ hand.is_over

\* C6: a process_action call on a non-terminal hand that fails reports the
\* cards-not-dealt error exactly when cards were not dealt and the
\* invalid-action error exactly when they were and the action is not legal;
\* the two errors differ from each other and from the hand-already-over error,
\* and every field, the history included, stays as it was.
C6_FailedCallChangesNothing ==
    /\ ErrInvalidAction # ErrNotDealt
    /\ ErrInvalidAction # ErrHandOver
    /\ ErrNotDealt # ErrHandOver
    /\ last.op = "process_action" /\ ~last.pre.is_over =>
          /\ ~Dealt(last.pre) => last.err = ErrNotDealt
          /\ Dealt(last.pre) /\ last.action \notin LegalSet(last.pre) =>
                last.err = ErrInvalidAction
          /\ Dealt(last.pre) /\ last.action \in LegalSet(last.pre) => last.err = OK
          /\ last.err # OK => hand = last.pre /\ History(hand) = History(last.pre)

\* C6 witness: an illegal action refused in the middle of a hand.
C6_Witness ==
    /\ last.op = "process_action" /\ last.err = ErrInvalidAction
    /\ ~last.pre.is_over /\ Len(History(last.pre)) >= 1

\* What the latest process_action took from position p's stack.
Debit(p) == IF last.action = CALL /\ p = Actor THEN last.pre.current_bet ELSE 0

\* C7: when a hand ends by CALL or by CHECK, showdown is true, winner_pos holds
\* the strictly higher card, the winner's stack delta is credited the whole pot
\* and the other stack delta is credited nothing.
C7_ShowdownWinner ==
    (Applied(CALL) \/ Applied(CHECK)) /\ hand.is_over =>
        LET w == hand.winner_pos
            l == other(hand.winner_pos)
        IN /\ hand.showdown
           /\ w \in {0, 1}
           /\ Cards(hand)[w + 1] > Cards(hand)[l + 1]
           /\ Stacks(hand)[w + 1] = Stacks(last.pre)[w + 1] - Debit(w) + hand.pot
           /\ Stacks(hand)[l + 1] = Stacks(last.pre)[l + 1] - Debit(l)

\* C7 witness: position 1 wins a showdown reached by the second CHECK.
C7_Witness ==
    /\ Applied(CHECK) /\ hand.is_over /\ History(hand) = <<CHECK, CHECK>>
    /\ hand.winner_pos = 1 /\ Cards(hand)[2] > Cards(hand)[1]
    /\ hand.pot > 0

\* C8: a legal FOLD ends the hand with showdown false and winner_pos the
\* position that did not fold, whatever the cards; the fold debits neither pot
\* nor the folder's stack delta, and the other player is credited the pot.
C8_FoldGivesPotToOther ==
    Applied(FOLD) =>
        /\ hand.is_over
        /\ ~hand.showdown
        /\ hand.winner_pos = other(Actor)
        /\ hand.pot = last.pre.pot
        /\ Stacks(hand)[Actor + 1] = Stacks(last.pre)[Actor + 1]
        /\ Stacks(hand)[other(Actor) + 1] =
               Stacks(last.pre)[other(Actor) + 1] + last.pre.pot

\* C8 witness: the player holding the higher card folds.
C8_Witness ==
    /\ Applied(FOLD)
    /\ Cards(hand)[Actor + 1] > Cards(hand)[other(Actor) + 1]
    /\ hand.winner_pos = other(Actor)

\* The money fields and the raise count of a hand state.
Money(s) == <<s.pot, s.current_bet, s.raises_made, Stacks(s)>>

\* C9: a legal CHECK ends the hand, via showdown, if and only if the previous
\* action was also a CHECK; otherwise it changes no money field and passes
\* control to the other player.
C9_CheckEndsIffSecondCheck ==
    Applied(CHECK) =>
        LET h == History(last.pre)
            second == Len(h) >= 1 /\ h[Len(h)] = CHECK
        IN /\ hand.is_over <=> second
           /\ hand.is_over => hand.showdown
           /\ ~hand.is_over =>
                 /\ Money(hand) = Money(last.pre)
                 /\ hand.acting_pos = other(Actor)

\* C9 witness: a CHECK that ends the hand although the action before it was a BET.
C9_Witness ==
    /\ Applied(CHECK) /\ hand.is_over
    /\ History(hand) = <<BET, CHECK>>

\* C10: a legal BET sets current_bet to ante, adds ante to pot, subtracts ante
\* from the acting player's stack delta and passes control without ending the
\* hand; a legal CALL adds current_bet to pot, subtracts it from the acting
\* player's stack delta (before the award) and ends the hand via showdown.
C10_BetAndCall ==
    /\ Applied(BET) =>
          /\ hand.current_bet = Config(hand).ante
          /\ hand.pot = last.pre.pot + Config(hand).ante
          /\ Stacks(hand)[Actor + 1] = Stacks(last.pre)[Actor + 1] - Config(hand).ante
          /\ Stacks(hand)[other(Actor) + 1] = Stacks(last.pre)[other(Actor) + 1]
          /\ hand.raises_made = last.pre.raises_made
          /\ hand.acting_pos = other(Actor)
          /\ ~hand.is_over
    /\ Applied(CALL) =>
          /\ hand.pot = last.pre.pot + last.pre.current_bet
          /\ hand.current_bet = last.pre.current_bet
          /\ Stacks(hand)[Actor + 1] =
                 Stacks(last.pre)[Actor + 1] - last.pre.current_bet +
                 (IF hand.winner_pos = Actor THEN hand.pot ELSE 0)
          /\ Stacks(hand)[other(Actor) + 1] =
                 Stacks(last.pre)[other(Actor) + 1] +
                 (IF hand.winner_pos = Actor THEN 0 ELSE hand.pot)
          /\ hand.is_over
          /\ hand.showdown

\* C10 witness: a CALL of a BET made at ante 2.
C10_Witness ==
    /\ Applied(CALL) /\ History(hand) = <<CHECK, BET, CALL>>
    /\ Config(hand).ante = 2 /\ hand.pot = 8

\* C11: for every GameConfig construction accepts, a dealt hand never has more
\* than max_raises + 3 actions in its history, and a hand with max_raises + 3
\* actions is over: every sequence of legal actions ends within that bound.
C11_HandTerminates ==
    Dealt(hand) =>
        /\ Len(History(hand)) <= Config(hand).max_raises + 3
        /\ Len(History(hand)) = Config(hand).max_raises + 3 => hand.is_over

\* C11 witness: four BETs in a row at ante 0 and max_raises 0, the hand not over.
C11_Witness ==
    /\ Config(hand).ante = 0 /\ Config(hand).max_raises = 0
    /\ History(hand) = <<BET, BET, BET, BET>>
    /\ ~hand.is_over
    /\ Applied(BET)

\* C17: dealing to a HandState whose cards are already dealt fails with the
\* already-dealt error and leaves both cards as they were, for
\* HandState.deal_cards and for the module-level deal_cards alike.
C17_DealtOnce ==
    last.op = "deal_cards" /\ Dealt(last.pre) =>
        /\ last.err = ErrAlreadyDealt
        /\ Cards(hand) = Cards(last.pre)

\* C17 witness: the module-level deal_cards returns normally on a dealt hand
\* and the hand holds other cards afterwards.
C17_Witness ==
    /\ impl = MODULE_LEVEL
    /\ last.op = "deal_cards" /\ Dealt(last.pre) /\ last.err = OK
    /\ Cards(hand) # Cards(last.pre)
    /\ Len(History(hand)) >= 1

\* The combinations the specification accepts.
ConfigAsSpecified(cfg) ==
    /\ MinDeckSize <= cfg.deck_size /\ cfg.deck_size <= DeckSizeLimit
    /\ 0 <= cfg.max_raises /\ cfg.max_raises <= RaisesLimit - 1
    /\ cfg.ante >= 1

\* C18: GameConfig construction succeeds if and only if deck_size is in
\* [3,13], max_raises is in [0,2] and ante >= 1; the config of every hand
\* constructed is such a combination.
C18_ConfigValidated ==
    /\ \A cfg \in ConfigsTried :
          (GameConfig_post_init(cfg) = OK) <=> ConfigAsSpecified(cfg)
    /\ ConfigAsSpecified(Config(hand))

\* C18 witness: a hand was constructed and played on a config whose ante is 0.
C18_Witness ==
    /\ Config(hand).ante = 0
    /\ GameConfig_post_init(Config(hand)) = OK
    /\ Len(History(hand)) >= 1

\* The implementation's InfoState of position p, its equality and its hash.
InfoOf(s, p) ==
    IF impl = METHOD THEN HandState_get_info_state(s, p).info ELSE get_info_state(s, p)
InfoEq(a, b) == IF impl = METHOD THEN InfoState_eq(a, b) ELSE dataclass_eq(a, b)
InfoHash(a) == IF impl = METHOD THEN InfoState_hash(a) ELSE dataclass_hash(a)
InfoHistory(a) == IF impl = METHOD THEN a.actions ELSE InfoState_actions(a)

\* The hands reached by dealing cards and then applying the actions.
Played(cfg, cards, actions) ==
    IF impl = METHOD THEN HandState_from_cards_actions(cfg, cards, actions)
    ELSE {tree_node_state(cfg, cards, actions)}

\* The cards of s with position p's card replaced by c.
WithCard(s, p, c) == [Cards(s) EXCEPT ![p + 1] = c]

\* C14: in a reachable dealt, non-terminal hand, the acting player's InfoState
\* and legal action set are the same in every hand played from the same
\* config by the same actions with the same card for the acting player and
\* another card for the opponent.
C14_InfoStateHidesOpponentCard ==
    Dealt(hand) /\ ~hand.is_over =>
        LET p == hand.acting_pos IN
        \A c \in {get_deck(Config(hand))[i] : i \in 1..Config(hand).deck_size} :
            c \notin {Cards(hand)[1], Cards(hand)[2]} =>
                \A r \in Played(Config(hand), WithCard(hand, other(p), c), History(hand)) :
                    /\ r.err = OK
                    /\ ~r.state.is_over
                    /\ r.state.acting_pos = p
                    /\ Cards(r.state)[other(p) + 1] # Cards(hand)[other(p) + 1]
                    /\ InfoEq(InfoOf(hand, p), InfoOf(r.state, p))
                    /\ InfoEq(InfoOf(r.state, p), InfoOf(hand, p))
                    /\ InfoHash(InfoOf(hand, p)) = InfoHash(InfoOf(r.state, p))
                    /\ ValidActions(hand) = ValidActions(r.state)

\* C14 witness: a hand two actions in, position 0 to act on a bet.
C14_Witness ==
    /\ Dealt(hand) /\ ~hand.is_over
    /\ History(hand) = <<CHECK, BET>>
    /\ hand.acting_pos = 0 /\ hand.current_bet > 0
    /\ Applied(BET)

\* C15: two InfoStates compare equal if and only if their card and action
\* sequence match, whatever their position and result, and equal InfoStates
\* have equal hashes: checked on the InfoStates of the two positions of a
\* reachable dealt hand against those of the hand played by the same actions
\* with the two cards exchanged.
C15_InfoStateIdentity ==
    Dealt(hand) =>
        \A r \in Played(Config(hand), <<Cards(hand)[2], Cards(hand)[1]>>, History(hand)) :
            r.err = OK =>
                \A p \in {0, 1}, q \in {0, 1} :
                    LET a == InfoOf(hand, p)
                        b == InfoOf(r.state, q)
                    IN /\ InfoEq(a, b) <=>
                              (a.card = b.card /\ InfoHistory(a) = InfoHistory(b))
                       /\ InfoEq(a, b) => InfoHash(a) = InfoHash(b)

\* C15 witness: the card at position 0 of a hand that ended by a fold is at
\* position 1 of the hand with the cards exchanged and has another result there.
C15_Witness ==
    /\ Dealt(hand) /\ hand.is_over /\ Applied(FOLD)
    /\ \E r \in Played(Config(hand), <<Cards(hand)[2], Cards(hand)[1]>>, History(hand)) :
          /\ r.err = OK
          /\ InfoOf(hand, 0).card = InfoOf(r.state, 1).card
          /\ InfoOf(hand, 0).result # InfoOf(r.state, 1).result

\* C16: in every dealt HandState, however it was dealt, the two cards differ
\* in rank and both are cards of the deck of the config's deck_size.
C16_DealtCardsDistinct ==
    Dealt(hand) =>
        /\ Len(Cards(hand)) = 2
        /\ Cards(hand)[1] # Cards(hand)[2]
        /\ \A i \in {1, 2} :
              /\ Cards(hand)[i] >= NumRanks - Config(hand).deck_size
              /\ Cards(hand)[i] <= NumRanks - 1

\* C16 witness: from_cards was given one card and drew the other.
C16_Witness ==
    /\ last.op = "from_cards" /\ last.err = OK
    /\ last.cards[1] = None /\ last.cards[2] # None
    /\ Dealt(hand) /\ Cards(hand)[2] = last.cards[2]

(***************************************************************************)
(* Enumeration of the game tree: generate_all_handstates over the          *)
(* HandState class (impl = METHOD) and build_game_tree over the dataclass  *)
(* (impl = MODULE_LEVEL).  tree holds the calls still to be made, first    *)
(* to be made first (stack), what was produced so far in the order of      *)
(* production (out: all_handstates, resp. the GameNodes in the order       *)
(* GameNode.__iter__ yields them) and the error raised (err).  Each entry  *)
(* of out is a state and the number of children made from it, None when    *)
(* the call returned at `if state.is_over`.                                *)
(***************************************************************************)
\* Python gives up a recursion deeper than its recursion limit; the limit is
\* modelled by MaxActions, above the depth of every hand with a non-zero ante.
ErrRecursion == [type |-> "RecursionError", msg |-> "maximum recursion depth exceeded"]

Node(s, children) == [state |-> s, children |-> children]

\* the exception leaves the enumerating function: nothing is returned
tree_raise(e) == [stack |-> <<>>, out |-> <<>>, err |-> e]

\* generate_all_handstates(config) up to its first generate_states_recursive
generate_all_handstates(cfg) ==
    [stack |-> [k \in 1..Len(get_all_card_combos(cfg)) |->
                   generate_initial_state(cfg, get_all_card_combos(cfg)[k])],
     out |-> <<>>,
     err |-> OK]

\* generate_states_recursive(state, all_handstates) for the state on top of
\* the stack: the state is appended, and unless it is over its children, one
\* per valid action, are the next calls.
generate_states_recursive(t) ==
    LET s == Head(t.stack)
        valid == HandState_get_valid_actions(s).valid
        new_state(i) == HandState_process_action(s, valid[i]).state
    IN IF s.is_over
       THEN [t EXCEPT !.stack = Tail(@), !.out = Append(@, Node(s, None))]
       ELSE IF Len(s.actions) >= MaxActions THEN tree_raise(ErrRecursion)
       ELSE [t EXCEPT !.stack = [i \in 1..Len(valid) |-> new_state(i)] \o Tail(@),
                      !.out = Append(@, Node(s, Len(valid)))]

\* build_game_tree(config) up to its first build_recursive: the root
build_game_tree(cfg) ==
    [stack |-> <<HandState_post_init(cfg)>>, out |-> <<>>, err |-> OK]

\* GameNode.build_children: the states of the children, in the order made
build_children(s) ==
    IF ~cards_dealt(s)
    THEN [k \in 1..Len(permutations(get_deck(s.game_rules))) |->
             build_deal_child(s, permutations(get_deck(s.game_rules))[k])]
    ELSE [i \in 1..Len(get_valid_actions(s).valid) |->
             process_action(s, get_valid_actions(s).valid[i]).state]

\* build_recursive(node) for the node on top of the stack
build_recursive(t) ==
    LET s == Head(t.stack) IN
    IF s.is_over
    THEN [t EXCEPT !.stack = Tail(@), !.out = Append(@, Node(s, None))]
    ELSE IF Len(s.actions_taken) >= MaxActions THEN tree_raise(ErrRecursion)
    ELSE [t EXCEPT !.stack = build_children(s) \o Tail(@),
                   !.out = Append(@, Node(s, Len(build_children(s))))]

\* GameNode.is_leaf
is_leaf(node) == node.children = None \/ node.children = 0

TreeInit ==
    /\ impl \in {METHOD, MODULE_LEVEL}
    /\ \E cfg \in GameConfig :
          /\ hand = IF impl = METHOD THEN HandState_init(cfg) ELSE HandState_post_init(cfg)
          /\ tree = IF impl = METHOD THEN generate_all_handstates(cfg)
                    ELSE build_game_tree(cfg)
    /\ last = Call("init", "none", OK, <<>>, hand)
    /\ solver = NoSolver
    /\ workers = NoWorkers
    /\ held = NoneHeld
    /\ manager = NoManager

GenerateStatesRecursive ==
    /\ impl = METHOD
    /\ tree.err = OK /\ tree.stack # <<>>
    /\ tree' = generate_states_recursive(tree)
    /\ UNCHANGED <<impl, hand, last, solver, workers, held, manager>>

BuildRecursive ==
    /\ impl = MODULE_LEVEL
    /\ tree.err = OK /\ tree.stack # <<>>
    /\ tree' = build_recursive(tree)
    /\ UNCHANGED <<impl, hand, last, solver, workers, held, manager>>

TreeNext ==
    \/ GenerateStatesRecursive
    \/ BuildRecursive

TreeSpec == TreeInit /\ [][TreeNext]_vars

\* The enumeration returned, and the places of out holding terminal states.
TreeDone == tree.err = OK /\ tree.stack = <<>>
Terminals == {i \in 1..Len(tree.out) : tree.out[i].state.is_over}

\* The ordered deals of two different cards of the deck.
OrderedDeals(cfg) ==
    {<<get_deck(cfg)[i], get_deck(cfg)[j]>> : i \in 1..cfg.deck_size, j \in 1..cfg.deck_size}
        \ {<<get_deck(cfg)[i], get_deck(cfg)[i]>> : i \in 1..cfg.deck_size}

\* xx, xbc, xbf, xbrc, xbrf, bc, bf, brc, brf
CompleteSequencesOneRaise ==
    {<<CHECK, CHECK>>, <<CHECK, BET, CALL>>, <<CHECK, BET, FOLD>>,
     <<CHECK, BET, RAISE, CALL>>, <<CHECK, BET, RAISE, FOLD>>,
     <<BET, CALL>>, <<BET, FOLD>>, <<BET, RAISE, CALL>>, <<BET, RAISE, FOLD>>}

\* C12: a terminal state is never expanded into children; an enumeration that
\* returned holds deck_size * (deck_size - 1) * (4 * max_raises + 5) terminal
\* states, and for deck_size 3 and max_raises 1 these are 54: each of the 9
\* complete action sequences for each of the 6 ordered deals exactly once.
C12_TerminalStates ==
    /\ \A i \in Terminals : tree.out[i].children = None
    /\ TreeDone =>
          LET cfg == Config(hand) IN
          /\ Cardinality(Terminals) =
                 cfg.deck_size * (cfg.deck_size - 1) * (4 * cfg.max_raises + 5)
          /\ cfg.deck_size = 3 /\ cfg.max_raises = 1 =>
                /\ Cardinality(Terminals) = 54
                /\ Cardinality(OrderedDeals(cfg)) = 6
                /\ \A deal \in OrderedDeals(cfg), actions \in CompleteSequencesOneRaise :
                      Cardinality({i \in Terminals :
                                      /\ Cards(tree.out[i].state) = deal
                                      /\ History(tree.out[i].state) = actions}) = 1

\* C12 witness: build_game_tree returned for deck_size 3, max_raises 1, ante 1
\* with 54 terminal nodes among its 91.
C12_Witness ==
    /\ impl = MODULE_LEVEL /\ TreeDone
    /\ Config(hand) = [deck_size |-> 3, max_raises |-> 1, ante |-> 1]
    /\ Cardinality(Terminals) = 54
    /\ Len(tree.out) = 91

(***************************************************************************)
(* The CFR solver (strategy/base_strategy.py, strategy/cfr_strategy.py).   *)
(* Probabilities, regrets and values are Python floats; they are modelled  *)
(* as exact fractions [n, d] in lowest terms with d > 0, so rounding is    *)
(* left out.  A dict from actions to floats is a function on its keys; it  *)
(* is iterated in the order of get_valid_actions, from which every such    *)
(* dict of the solver gets its keys.  A dict keyed by InfoState is a       *)
(* function on the set of its keys.                                        *)
(***************************************************************************)
Abs(x) == IF x < 0 THEN -x ELSE x

RECURSIVE GCD(_, _)
GCD(a, b) == IF b = 0 THEN a ELSE GCD(b, a % b)

Frac(n, d) ==
    LET g == GCD(Abs(n), Abs(d))
        sign == IF d < 0 THEN -1 ELSE 1
    IN [n |-> sign * (n \div g), d |-> sign * (d \div g)]

FInt(i) == [n |-> i, d |-> 1]
\* The operands are in lowest terms; common factors are taken out before
\* multiplying, to keep the products small.
FAdd(x, y) ==
    LET g == GCD(x.d, y.d)
    IN Frac(x.n * (y.d \div g) + y.n * (x.d \div g), (x.d \div g) * y.d)
FNeg(x) == [n |-> -x.n, d |-> x.d]
FSub(x, y) == FAdd(x, FNeg(y))
FMul(x, y) ==
    LET g1 == GCD(Abs(x.n), y.d)
        g2 == GCD(Abs(y.n), x.d)
    IN IF x.n = 0 \/ y.n = 0 THEN FInt(0)
       ELSE Frac((x.n \div g1) * (y.n \div g2), (x.d \div g2) * (y.d \div g1))
FDiv(x, y) == FMul(x, IF y.n < 0 THEN [n |-> -y.d, d |-> -y.n] ELSE [n |-> y.d, d |-> y.n])
FPositive(x) == x.n > 0
FLess(x, y) == FPositive(FSub(y, x))                 \* x < y
FMax0(x) == IF x.n > 0 THEN x ELSE FInt(0)          \* max(0, x)

\* the keys of an action dict, in the order of get_valid_actions
dict_keys(d) == SelectSeq(<<CHECK, BET, CALL, FOLD, RAISE>>, LAMBDA a : a \in DOMAIN d)

\* sum(d.values())
RECURSIVE sum_from(_, _, _)
sum_from(d, keys, k) ==
    IF k > Len(keys) THEN FInt(0) ELSE FAdd(d[keys[k]], sum_from(d, keys, k + 1))

sum_values(d) == sum_from(d, dict_keys(d), 1)

\* d[key] = value on a dict keyed by InfoState
dict_set(d, key, value) == (key :> value) @@ d

EmptyDict == [x \in {} |-> 0]

\* Mutant of _generate_random_policy: all the probability on the first valid
\* action.
_generate_random_policy_first_action(nodes) ==
    LET info_state(k) == get_info_state(nodes[k].state, nodes[k].state.acting_pos)
        inner == {k \in 1..Len(nodes) : ~is_leaf(nodes[k])}
        first(key) == CHOOSE k \in inner :
                          /\ info_state(k) = key
                          /\ \A j \in inner : info_state(j) = key => k <= j
    IN [key \in {info_state(k) : k \in inner} |->
           LET actions == get_valid_actions(nodes[first(key)].state).valid
           IN [a \in Range(actions) |-> IF a = actions[1] THEN FInt(1) ELSE FInt(0)]]

\* Strategy._generate_random_policy over the nodes of the tree, in the order
\* GameNode.__iter__ yields them: every node that is not a leaf gives its
\* acting player's InfoState, unless already there, the uniform distribution
\* over get_valid_actions of the node's state; so each InfoState gets the
\* distribution of the first node that has it.
_generate_random_policy(nodes) ==
    LET info_state(k) == get_info_state(nodes[k].state, nodes[k].state.acting_pos)
        inner == {k \in 1..Len(nodes) : ~is_leaf(nodes[k])}
        first(key) == CHOOSE k \in inner :
                          /\ info_state(k) = key
                          /\ \A j \in inner : info_state(j) = key => k <= j
    IN [key \in {info_state(k) : k \in inner} |->
           LET actions == get_valid_actions(nodes[first(key)].state).valid
           IN [a \in Range(actions) |-> Frac(1, Len(actions))]]

\* An exception raised inside an iteration.  No method of the solver has a
\* try statement, so what an exception does is the same wherever it comes
\* from; the one modelled is the KeyboardInterrupt of a cancellation, raised
\* on entry to a call of update_regrets.  raise_after, which is not a field of
\* the CFRStrategy, says when: after that many more calls of update_regrets
\* (NoRaise: never); Raised, once the exception is on its way out.
NoRaise == -1
Raised == -2

\* CFRStrategy.__init__ once build_game_tree returned the nodes.  visited and
\* updated are no fields of the CFRStrategy either: they list the calls of the
\* latest pass of train's loop, _cfr_recursive by the action history of the
\* state it was called on and update_regrets by its InfoState and action.
CFRStrategy_init(cfg, nodes) ==
    [config |-> cfg,
     policy |-> _generate_random_policy(nodes),
     regret_sum |-> EmptyDict,
     strategy_sum |-> EmptyDict,
     iterations |-> 0,
     raise_after |-> NoRaise,
     visited |-> <<>>,
     updated |-> <<>>]

\* Mutant of get_strategy: the policy's present entry once an update has
\* changed it from the seeded uniform one, regret matching until then.
get_strategy_from_updated_policy(sv, info_state) ==
    LET keys == DOMAIN sv.policy[info_state]
        strategy == [a \in keys |-> FMax0(sv.regret_sum[info_state][a])]
        normalizing_sum == sum_values(strategy)
    IN IF info_state \notin DOMAIN sv.regret_sum THEN sv.policy[info_state]
       ELSE IF \E a \in keys : sv.policy[info_state][a] # Frac(1, Cardinality(keys))
       THEN sv.policy[info_state]
       ELSE IF FPositive(normalizing_sum)
       THEN [a \in keys |-> FDiv(strategy[a], normalizing_sum)]
       ELSE [a \in keys |-> Frac(1, Cardinality(keys))]

\* CFRStrategy.get_strategy(info_state): regret matching
get_strategy(sv, info_state) ==
    IF info_state \notin DOMAIN sv.regret_sum THEN sv.policy[info_state]
    ELSE LET keys == DOMAIN sv.policy[info_state]
             strategy == [a \in keys |-> FMax0(sv.regret_sum[info_state][a])]
             normalizing_sum == sum_values(strategy)
         IN IF FPositive(normalizing_sum)
            THEN [a \in keys |-> FDiv(strategy[a], normalizing_sum)]
            ELSE [a \in keys |-> Frac(1, Cardinality(keys))]

\* CFRStrategy.update_regrets(info_state, action, regret), the whole body
update_regrets_body(sv, info_state, action, regret) ==
    LET zeros == [a \in DOMAIN sv.policy[info_state] |-> FInt(0)]
        regret_sum0 == IF info_state \in DOMAIN sv.regret_sum THEN sv.regret_sum
                       ELSE dict_set(sv.regret_sum, info_state, zeros)
        strategy_sum0 == IF info_state \in DOMAIN sv.strategy_sum THEN sv.strategy_sum
                         ELSE dict_set(sv.strategy_sum, info_state, zeros)
        regret_sum1 == [regret_sum0 EXCEPT ![info_state] =
                           [a \in DOMAIN @ |->
                               IF a = action THEN FAdd(@[a], regret) ELSE @[a]]]
        strategy == get_strategy([sv EXCEPT !.regret_sum = regret_sum1], info_state)
    IN [sv EXCEPT !.regret_sum = regret_sum1,
                  !.strategy_sum =
                      [strategy_sum0 EXCEPT ![info_state] =
                          [a \in DOMAIN @ |->
                              IF a \in DOMAIN strategy THEN FAdd(@[a], strategy[a])
                              ELSE @[a]]],
                  !.updated = Append(@, <<info_state, action>>)]

\* CFRStrategy.update_regrets(info_state, action, regret): not reached once an
\* exception is on its way out; raises it when due.
update_regrets(sv, info_state, action, regret) ==
    IF sv.raise_after = Raised THEN sv
    ELSE IF sv.raise_after = 0 THEN [sv EXCEPT !.raise_after = Raised]
    ELSE [update_regrets_body(sv, info_state, action, regret)
             EXCEPT !.raise_after = IF @ = NoRaise THEN NoRaise ELSE @ - 1]

\* The loop `for action in action_values` of _cfr_recursive, from the k-th key
RECURSIVE update_regrets_from(_, _, _, _, _, _, _)
update_regrets_from(sv, info_state, keys, k, action_values, node_value, reach_prob) ==
    IF k > Len(keys) THEN sv
    ELSE LET updated == update_regrets(sv, info_state, keys[k],
                                       FMul(reach_prob,
                                            FSub(action_values[keys[k]], node_value)))
         IN IF updated.raise_after = Raised THEN updated
            ELSE update_regrets_from(updated, info_state, keys, k + 1, action_values,
                                     node_value, reach_prob)

\* _cfr_recursive is entered on state s (no call is made once an exception is
\* on its way out).
cfr_entered(sv, s) ==
    IF sv.raise_after = Raised THEN sv
    ELSE [sv EXCEPT !.visited = Append(@, s.actions_taken)]

\* CFRStrategy._cfr_recursive(state, op_reach, ip_reach): the solver after the
\* call and the node value returned.  cfr_actions is its loop over the keys of
\* policy[info_state], after the first k keys: the action values and the node
\* value accumulated so far, and the solver as the calls on the children left
\* it.
RECURSIVE _cfr_recursive(_, _, _, _)
RECURSIVE cfr_actions(_, _, _, _, _, _, _)
cfr_actions(sv, s, op_reach, ip_reach, strategy, keys, k) ==
    IF k = 0
    THEN [action_values |-> EmptyDict, node_value |-> <<FInt(0), FInt(0)>>, sv |-> sv]
    ELSE LET before == cfr_actions(sv, s, op_reach, ip_reach, strategy, keys, k - 1)
             action == keys[k]
             new_state == process_action(s, action).state
             action_reach == FMul(IF s.acting_pos = 0 THEN op_reach ELSE ip_reach,
                                  strategy[action])
             child == IF s.acting_pos = 0
                      THEN _cfr_recursive(before.sv, new_state, action_reach, ip_reach)
                      ELSE _cfr_recursive(before.sv, new_state, op_reach, action_reach)
         IN [action_values |->
                 before.action_values @@ (action :> child.value[s.acting_pos + 1]),
             node_value |->
                 <<FAdd(before.node_value[1], FMul(strategy[action], child.value[1])),
                   FAdd(before.node_value[2], FMul(strategy[action], child.value[2]))>>,
             sv |-> child.sv]

\* Mutant of _cfr_recursive: the last action of a node is left out.
_cfr_recursive_skipping_last_action(sv, s, op_reach, ip_reach) ==
    IF s.is_over
    THEN [value |-> <<FInt(s.players[1].stack), FInt(s.players[2].stack)>>,
          sv |-> cfr_entered(sv, s)]
    ELSE LET info_state == get_info_state(s, s.acting_pos)
             all_keys == dict_keys(sv.policy[info_state])
             keys == SubSeq(all_keys, 1, Len(all_keys) - 1)
             done == cfr_actions(cfr_entered(sv, s), s, op_reach, ip_reach,
                                 get_strategy(sv, info_state), keys, Len(keys))
             reach_prob == IF s.acting_pos = 0 THEN ip_reach ELSE op_reach
         IN [value |-> done.node_value,
             sv |-> update_regrets_from(done.sv, info_state, keys, 1, done.action_values,
                                        done.node_value[s.acting_pos + 1], reach_prob)]

\* Mutant of _cfr_recursive: the regrets are weighted by the acting player's
\* own reach probability.
_cfr_recursive_own_reach(sv, s, op_reach, ip_reach) ==
    IF s.is_over
    THEN [value |-> <<FInt(s.players[1].stack), FInt(s.players[2].stack)>>,
          sv |-> cfr_entered(sv, s)]
    ELSE LET info_state == get_info_state(s, s.acting_pos)
             keys == dict_keys(sv.policy[info_state])
             done == cfr_actions(cfr_entered(sv, s), s, op_reach, ip_reach,
                                 get_strategy(sv, info_state), keys, Len(keys))
             reach_prob == IF s.acting_pos = 0 THEN op_reach ELSE ip_reach
         IN [value |-> done.node_value,
             sv |-> update_regrets_from(done.sv, info_state, keys, 1, done.action_values,
                                        done.node_value[s.acting_pos + 1], reach_prob)]

_cfr_recursive(sv, s, op_reach, ip_reach) ==
    IF s.is_over
    THEN [value |-> <<FInt(s.players[1].stack), FInt(s.players[2].stack)>>,
          sv |-> cfr_entered(sv, s)]
    ELSE LET info_state == get_info_state(s, s.acting_pos)
             keys == dict_keys(sv.policy[info_state])
             done == cfr_actions(cfr_entered(sv, s), s, op_reach, ip_reach,
                                 get_strategy(sv, info_state), keys, Len(keys))
             reach_prob == IF s.acting_pos = 0 THEN ip_reach ELSE op_reach
         IN [value |-> done.node_value,
             sv |-> update_regrets_from(done.sv, info_state, keys, 1, done.action_values,
                                        done.node_value[s.acting_pos + 1], reach_prob)]

\* Mutant of _cfr_iteration: train counts the pass whether or not it raised.
_cfr_iteration_counting_raised(sv, d) ==
    LET initial_state == deal_cards(HandState_post_init(sv.config), d).state
    IN [_cfr_recursive([sv EXCEPT !.visited = <<>>, !.updated = <<>>],
                       initial_state, FInt(1), FInt(1)).sv
            EXCEPT !.iterations = @ + 1]

\* CFRStrategy._cfr_iteration and the iterations += 1 of train's loop, d the
\* two cards deal_cards pops from the shuffled deck.  The statement after the
\* call is not reached when the call raised.
_cfr_iteration(sv, d) ==
    LET initial_state == deal_cards(HandState_post_init(sv.config), d).state
        after == _cfr_recursive([sv EXCEPT !.visited = <<>>, !.updated = <<>>],
                                initial_state, FInt(1), FInt(1)).sv
    IN IF after.raise_after = Raised THEN after
       ELSE [after EXCEPT !.iterations = @ + 1]

\* Mutant of the average strategy: strategy_sum as accumulated, not normalised.
average_strategy_not_normalised(sv, info_state) ==
    IF info_state \in DOMAIN sv.strategy_sum
          /\ FPositive(sum_values(sv.strategy_sum[info_state]))
    THEN sv.strategy_sum[info_state]
    ELSE sv.policy[info_state]

\* The average strategy of one InfoState, as both
\* _update_policy_with_average_strategy and get_average_strategy compute it:
\* strategy_sum normalised when the InfoState is in strategy_sum with a
\* positive sum, else the policy's present entry.
average_strategy(sv, info_state) ==
    IF info_state \in DOMAIN sv.strategy_sum
          /\ FPositive(sum_values(sv.strategy_sum[info_state]))
    THEN [a \in DOMAIN sv.strategy_sum[info_state] |->
             FDiv(sv.strategy_sum[info_state][a], sum_values(sv.strategy_sum[info_state]))]
    ELSE sv.policy[info_state]

\* Mutant of _update_policy_with_average_strategy: strategy_sum is emptied
\* once the policy is derived from it.
_update_policy_with_average_strategy_clears(sv) ==
    [sv EXCEPT !.policy = [info_state \in DOMAIN sv.policy |->
                              average_strategy(sv, info_state)],
               !.strategy_sum = EmptyDict]

\* CFRStrategy._update_policy_with_average_strategy
_update_policy_with_average_strategy(sv) ==
    [sv EXCEPT !.policy = [info_state \in DOMAIN sv.policy |->
                              average_strategy(sv, info_state)]]

\* CFRStrategy.get_average_strategy: the dict returned
get_average_strategy(sv) ==
    [info_state \in DOMAIN sv.policy |-> average_strategy(sv, info_state)]

(***************************************************************************)
(* The solver's state machine: CFRStrategy(config) builds the game tree    *)
(* and seeds the policy from it; train() runs CFR iterations, each on a    *)
(* fresh deal, and ends with _update_policy_with_average_strategy;         *)
(* get_average_strategy may be called between trainings.  last records     *)
(* the latest call on the solver: the operation, what it returned (for     *)
(* _update_policy_with_average_strategy the policy it left), the solver it *)
(* was called on, and the operation and result of the call before it.      *)
(***************************************************************************)
\* The configs a solver is constructed on: those of the smallest deck.
SolverConfigs == {cfg \in GameConfig : cfg.deck_size = MinDeckSize}

SolverCall(op, ret, pre) ==
    [op |-> op, ret |-> ret, pre |-> pre,
     before |-> [op |-> last.op, ret |-> IF last.op = "init" THEN <<>> ELSE last.ret]]

SolverInit ==
    /\ impl = MODULE_LEVEL
    /\ \E cfg \in SolverConfigs :
          /\ hand = HandState_post_init(cfg)
          /\ tree = build_game_tree(cfg)
    /\ last = Call("init", "none", OK, <<>>, hand)
    /\ solver = NoSolver
    /\ workers = NoWorkers
    /\ held = NoneHeld
    /\ manager = NoManager

\* The rest of CFRStrategy.__init__ once build_game_tree returned; root, the
\* tree, is a local of _generate_random_policy and is gone afterwards.
StrategyInit ==
    /\ solver = NoSolver
    /\ tree.err = OK /\ tree.stack = <<>> /\ tree.out # <<>>
    /\ solver' = CFRStrategy_init(hand.game_rules, tree.out)
    /\ tree' = NoTree
    /\ last' = SolverCall("CFRStrategy", <<>>, solver)
    /\ UNCHANGED <<impl, hand, workers, held, manager>>

\* One pass of train's loop.
TrainIteration ==
    /\ solver # NoSolver
    /\ solver.raise_after = NoRaise
    /\ solver.iterations < MaxIterations
    /\ \E d \in shuffle_pop2(get_deck(solver.config)) :
          solver' = _cfr_iteration(solver, d)
    /\ last' = SolverCall("_cfr_iteration", <<>>, solver)
    /\ UNCHANGED <<impl, hand, tree, workers, held, manager>>

\* The end of train, after its loop (of no pass for train(0)).
UpdatePolicy ==
    /\ solver # NoSolver
    /\ solver' = _update_policy_with_average_strategy(solver)
    /\ last' = SolverCall("_update_policy_with_average_strategy", solver'.policy, solver)
    /\ UNCHANGED <<impl, hand, tree, workers, held, manager>>

\* get_average_strategy(), not in the middle of train.
GetAverageStrategy ==
    /\ solver # NoSolver
    /\ last.op # "_cfr_iteration"
    /\ last' = SolverCall("get_average_strategy", get_average_strategy(solver), solver)
    /\ UNCHANGED <<impl, hand, tree, solver, workers, held, manager>>

SolverNext ==
    \/ BuildRecursive
    \/ StrategyInit
    \/ TrainIteration
    \/ UpdatePolicy
    \/ GetAverageStrategy

SolverSpec == SolverInit /\ [][SolverNext]_vars

\* A pass of train's loop that is cancelled: the KeyboardInterrupt arrives at
\* the (n + 1)-th call of update_regrets and leaves train, so neither the rest
\* of the loop nor _update_policy_with_average_strategy runs.
AbortedIteration ==
    /\ solver # NoSolver
    /\ solver.raise_after = NoRaise
    /\ solver.iterations < MaxIterations
    /\ \E d \in shuffle_pop2(get_deck(solver.config)), n \in 0..MaxUpdatesBeforeRaise :
          /\ solver' = _cfr_iteration([solver EXCEPT !.raise_after = n], d)
          /\ solver'.raise_after = Raised
    /\ last' = SolverCall("_cfr_iteration", <<>>, solver)
    /\ UNCHANGED <<impl, hand, tree, workers, held, manager>>

AbortNext ==
    \/ BuildRecursive
    \/ StrategyInit
    \/ TrainIteration
    \/ AbortedIteration

AbortSpec == SolverInit /\ [][AbortNext]_vars

\* The legal actions of an InfoState key: those of a hand dealt with the
\* InfoState's card at its position and played by its actions; none for the
\* InfoState of a hand whose cards are not dealt.
LegalActionsOf(cfg, info_state) ==
    IF info_state.card = None THEN {}
    ELSE LET c == CHOOSE x \in {get_deck(cfg)[i] : i \in 1..cfg.deck_size} :
                      x # info_state.card
             r == tree_node_state(cfg,
                      IF info_state.pos = 0 THEN <<info_state.card, c>>
                      ELSE <<c, info_state.card>>,
                      InfoState_actions(info_state))
         IN IF r.err = OK /\ ~r.state.is_over THEN LegalSet(r.state) ELSE {}

Uniform(actions) == [a \in actions |-> Frac(1, Cardinality(actions))]

\* C13: for every InfoState key of a CFRStrategy's policy, as seeded and after
\* training and the average-strategy update, the probabilities are defined
\* over exactly the InfoState's legal actions and sum to 1.
C13_PolicyNormalised ==
    solver # NoSolver =>
        \A info_state \in DOMAIN solver.policy :
            /\ DOMAIN solver.policy[info_state] =
                   LegalActionsOf(solver.config, info_state)
            /\ sum_values(solver.policy[info_state]) = FInt(1)

\* C13 witness: after training, the policy holds the InfoState of the
\* undealt root of the game tree with no action at all.
C13_Witness ==
    /\ solver # NoSolver
    /\ last.op = "_update_policy_with_average_strategy"
    /\ solver.iterations >= 1
    /\ \E info_state \in DOMAIN solver.policy :
          /\ info_state.card = None
          /\ DOMAIN solver.policy[info_state] = {}
          /\ sum_values(solver.policy[info_state]) = FInt(0)

\* C19: after training, the policy entry of every InfoState with a positive
\* strategy-sum total holds, for each action, the action's strategy-sum weight
\* divided by that total; every other entry is the uniform distribution over
\* the InfoState's legal actions.
C19_PolicyIsAverage ==
    solver # NoSolver /\ last.op = "_update_policy_with_average_strategy" =>
        \A info_state \in DOMAIN solver.policy :
            IF info_state \in DOMAIN solver.strategy_sum
                  /\ FPositive(sum_values(solver.strategy_sum[info_state]))
            THEN /\ DOMAIN solver.policy[info_state] =
                        DOMAIN solver.strategy_sum[info_state]
                 /\ \A a \in DOMAIN solver.policy[info_state] :
                        FMul(solver.policy[info_state][a],
                             sum_values(solver.strategy_sum[info_state])) =
                        solver.strategy_sum[info_state][a]
            ELSE solver.policy[info_state] =
                     Uniform(LegalActionsOf(solver.config, info_state))

\* C19 witness: after an iteration and the update that ends the training, one
\* entry is not uniform and another InfoState was never visited.
C19_Witness ==
    /\ solver # NoSolver /\ last.op = "_update_policy_with_average_strategy"
    /\ last.before.op = "_cfr_iteration"
    /\ solver.iterations >= 1
    /\ \E info_state \in DOMAIN solver.strategy_sum :
          solver.policy[info_state] # Uniform(DOMAIN solver.policy[info_state])
    /\ \E info_state \in DOMAIN solver.policy :
          info_state.card # None /\ info_state \notin DOMAIN solver.strategy_sum

AverageOps == {"get_average_strategy", "_update_policy_with_average_strategy"}

\* C20: get_average_strategy and _update_policy_with_average_strategy leave
\* regret_sum and strategy_sum as they were, and the second of two such calls
\* with no training in between yields the probabilities the first yielded.
C20_AverageIdempotent ==
    solver # NoSolver /\ last.op \in AverageOps =>
        /\ solver.regret_sum = last.pre.regret_sum
        /\ solver.strategy_sum = last.pre.strategy_sum
        /\ last.before.op \in AverageOps => last.ret = last.before.ret

\* C20 witness: get_average_strategy right after the update that ended a
\* training, returning an entry that is not uniform.
C20_Witness ==
    /\ solver # NoSolver
    /\ last.op = "get_average_strategy"
    /\ last.before.op = "_update_policy_with_average_strategy"
    /\ solver.iterations >= 1
    /\ \E info_state \in DOMAIN solver.strategy_sum :
          last.ret[info_state] # Uniform(DOMAIN last.ret[info_state])

(***************************************************************************)
(* C21: training is deterministic in the dealt cards.  An iteration is a   *)
(* function of the solver and the two cards dealt; of the solver it reads  *)
(* regret_sum, strategy_sum and the policy, so the claim's case is two     *)
(* solvers of equal tables whose policies differ: the solver train left    *)
(* (policy averaged) and the same solver before that update (policy as     *)
(* seeded).  Given the same deal both end the iteration with equal         *)
(* regret_sum and strategy_sum, and the update that ends train gives both  *)
(* the same policy.                                                        *)
(***************************************************************************)
TablesOf(sv) == [regret_sum |-> sv.regret_sum, strategy_sum |-> sv.strategy_sum]

\* C21: two solvers of one config and equal regret_sum and strategy_sum, given
\* the same dealt pair, end the iteration with equal regret_sum and
\* strategy_sum and train leaves them equal policies.
C21_DeterministicInDeal ==
    (/\ solver # NoSolver
     /\ last.op = "_update_policy_with_average_strategy"
     /\ solver.iterations <= 1)
    => /\ TablesOf(solver) = TablesOf(last.pre)
       /\ \A d \in shuffle_pop2(get_deck(solver.config)) :
             LET a == _cfr_iteration(solver, d)
                 b == _cfr_iteration(last.pre, d)
             IN /\ TablesOf(a) = TablesOf(b)
                /\ _update_policy_with_average_strategy(a).policy
                     = _update_policy_with_average_strategy(b).policy

\* a trained solver whose policy the update changed
C21_Witness ==
    /\ solver # NoSolver
    /\ last.op = "_update_policy_with_average_strategy"
    /\ solver.iterations = 1
    /\ solver.policy # last.pre.policy

(***************************************************************************)
(* Strategy.weighted_random_choice(action_probs), the same code in         *)
(* core/strategy.py and strategy/base_strategy.py.  action_probs is the    *)
(* dict as the sequence of its items, in insertion order; rnd is the draw  *)
(* random.random() returned.  The probabilities and the draws tried are    *)
(* dyadic, so the float sums and comparisons are exact.  The empty map is  *)
(* among the maps tried: it is the policy's entry for the InfoState of a   *)
(* hand not dealt yet (see C13), which Strategy.get_action passes on.      *)
(***************************************************************************)
RECURSIVE weighted_random_choice_from(_, _, _, _)
weighted_random_choice_from(action_probs, rnd, k, cumulative) ==
    IF k > Len(action_probs)
    THEN IF action_probs = <<>> THEN [err |-> ErrIndex, action |-> "none"]
         ELSE [err |-> OK, action |-> action_probs[Len(action_probs)].action]
    ELSE IF FLess(rnd, FAdd(cumulative, action_probs[k].prob))
    THEN [err |-> OK, action |-> action_probs[k].action]
    ELSE weighted_random_choice_from(action_probs, rnd, k + 1,
                                     FAdd(cumulative, action_probs[k].prob))

weighted_random_choice(action_probs, rnd) ==
    weighted_random_choice_from(action_probs, rnd, 1, FInt(0))

\* The maps and the draws tried.
ActionsTried == <<CHECK, BET, CALL, FOLD, RAISE>>
ProbsTried == {Frac(i, 2 ^ ProbBits) : i \in 0..(2 ^ ProbBits)}
ActionProbs ==
    UNION {{[k \in 1..n |-> [action |-> ActionsTried[k], prob |-> probs[k]]] :
               probs \in [1..n -> ProbsTried]} : n \in 0..MaxChoices}
Draws == {Frac(i, 2 ^ (ProbBits + 1)) : i \in 0..(2 ^ (ProbBits + 1) - 1)}

ChoiceInit ==
    /\ impl = MODULE_LEVEL
    /\ hand = HandState_post_init([deck_size |-> MinDeckSize, max_raises |-> 0, ante |-> 1])
    /\ last = Call("init", "none", OK, <<>>, hand)
    /\ tree = NoTree
    /\ solver = NoSolver
    /\ workers = NoWorkers
    /\ held = NoneHeld
    /\ manager = NoManager

WeightedRandomChoice ==
    /\ \E action_probs \in ActionProbs, rnd \in Draws :
          last' = [op |-> "weighted_random_choice", action_probs |-> action_probs,
                   rnd |-> rnd, ret |-> weighted_random_choice(action_probs, rnd)]
    /\ UNCHANGED <<impl, hand, tree, solver, workers, held, manager>>

ChoiceNext == WeightedRandomChoice

ChoiceSpec == ChoiceInit /\ [][ChoiceNext]_vars

\* the sum of the first k probabilities of a map
RECURSIVE Cumulative(_, _)
Cumulative(action_probs, k) ==
    IF k = 0 THEN FInt(0) ELSE FAdd(Cumulative(action_probs, k - 1), action_probs[k].prob)

\* the place of the action the claim names: the first whose cumulative
\* probability exceeds the draw, the last when there is none
Chosen(action_probs, rnd) ==
    LET exceeding == {k \in 1..Len(action_probs) : FLess(rnd, Cumulative(action_probs, k))}
    IN IF exceeding = {} THEN Len(action_probs)
       ELSE CHOOSE k \in exceeding : \A j \in exceeding : k <= j

\* C22: weighted_random_choice always returns a key of the map: the first
\* action whose cumulative probability exceeds the draw, the last enumerated
\* one when the cumulative sum stays at or below the draw.
C22_ChoiceIsKey ==
    last.op = "weighted_random_choice"
    => /\ last.ret.err = OK
       /\ last.ret.action \in {last.action_probs[k].action : k \in 1..Len(last.action_probs)}
       /\ last.ret.action = last.action_probs[Chosen(last.action_probs, last.rnd)].action

\* C22 for the maps that have an action
C22_ChoiceIsKeyOfNonEmpty ==
    (last.op = "weighted_random_choice" /\ last.action_probs # <<>>)
    => /\ last.ret.err = OK
       /\ last.ret.action = last.action_probs[Chosen(last.action_probs, last.rnd)].action

\* the empty map was sampled and list(action_probs.keys())[-1] raised
C22_Witness ==
    /\ last.op = "weighted_random_choice"
    /\ last.action_probs = <<>>
    /\ last.ret.err = ErrIndex

\* the cumulative sum stayed at or below the draw and the last action was returned
C22_FallbackTaken ==
    /\ last.op = "weighted_random_choice"
    /\ Len(last.action_probs) >= 2
    /\ ~FLess(last.rnd, Cumulative(last.action_probs, Len(last.action_probs)))
    /\ last.ret.action = last.action_probs[Len(last.action_probs)].action

(***************************************************************************)
(* C24: HandState.from_cards given one card and None, or two cards.        *)
(***************************************************************************)
InDeck(cfg, card) == \E i \in 1..cfg.deck_size : get_deck(cfg)[i] = card

\* C24: from_cards given one card of the deck and None, in either position,
\* returns a dealt HandState that is not over, the card given in its
\* position and the other a different card of the deck; given two cards it
\* raises when they are equal or not both in the deck.
C24_FromCardsOneNone ==
    last.op = "from_cards" =>
        LET cfg == last.pre.config
            one == {i \in {1, 2} : last.cards[i] # None}
        IN /\ (one = {1, 2} /\ (last.cards[1] = last.cards[2]
                                  \/ \E i \in one : ~InDeck(cfg, last.cards[i])))
                 => last.err # OK
           /\ (Cardinality(one) = 1 /\ \A i \in one : InDeck(cfg, last.cards[i]))
                 => /\ last.err = OK
                    /\ hand.cards_dealt /\ ~hand.is_over
                    /\ \A i \in one : hand.cards[i] = last.cards[i]
                    /\ \A i \in {1, 2} \ one :
                          /\ InDeck(cfg, hand.cards[i])
                          /\ \A j \in one : hand.cards[i] # last.cards[j]

\* from_cards given [card, None]: the card drawn for the second position is
\* removed from the deck a second time and list.remove raises
C24_Witness ==
    /\ last.op = "from_cards"
    /\ last.cards[1] # None /\ InDeck(last.pre.config, last.cards[1])
    /\ last.cards[2] = None
    /\ last.err = ErrListRemove

\* C24 for the None in the first position and for two cards
C24_FromCardsNoneFirst ==
    (last.op = "from_cards" /\ last.cards[2] # None) =>
        LET cfg == last.pre.config
        IN IF last.cards[1] # None
           THEN (last.cards[1] = last.cards[2] \/ ~InDeck(cfg, last.cards[1])
                    \/ ~InDeck(cfg, last.cards[2])) <=> last.err # OK
           ELSE InDeck(cfg, last.cards[2])
                   => /\ last.err = OK
                      /\ hand.cards_dealt /\ ~hand.is_over
                      /\ hand.cards[2] = last.cards[2]
                      /\ InDeck(cfg, hand.cards[1]) /\ hand.cards[1] # hand.cards[2]

(***************************************************************************)
(* Iterations that end in an exception.                                    *)
(***************************************************************************)
\* An iteration was aborted part-way: the last pass of train's loop raised.
IterationAborted ==
    /\ solver # NoSolver
    /\ solver.raise_after = Raised
    /\ last.op = "_cfr_iteration"

\* C25 (as stated): after an iteration that was aborted part-way through its
\* recursion, regret_sum and strategy_sum hold exactly the values they had
\* before that iteration started.
C25_AbortLeavesTables ==
    IterationAborted => TablesOf(solver) = TablesOf(last.pre)

\* An aborted iteration before which update_regrets had run at least once.
C25_Witness ==
    /\ IterationAborted
    /\ solver.regret_sum # last.pre.regret_sum
    /\ solver.strategy_sum # last.pre.strategy_sum

Worker == {1, 2}
RegretsTried == {Frac(1, 2), Frac(-1, 2)}

\* The config of the solver the threads share
ParallelConfigs == {cfg \in SolverConfigs : cfg.max_raises = 0 /\ cfg.ante = 1}

\* The InfoStates the calls are on: those of the first decision of a hand.
FirstDecisions(sv) ==
    {info_state \in DOMAIN sv.policy :
        /\ info_state.actions_taken = <<>>
        /\ DOMAIN sv.policy[info_state] # {}}

\* The frame of update_regrets(info_state, action, regret) on entry
update_regrets_frame(info_state, action, regret) ==
    [pc |-> "test_regret_sum", info_state |-> info_state, action |-> action,
     regret |-> regret, held |-> FInt(0), orphan |-> FALSE,
     strategy |-> EmptyDict, todo |-> <<>>]

ParallelInit ==
    /\ impl = MODULE_LEVEL
    /\ \E cfg \in ParallelConfigs :
          /\ hand = HandState_post_init(cfg)
          /\ tree = build_game_tree(cfg)
    /\ last = Call("init", "none", OK, <<>>, hand)
    /\ solver = NoSolver
    /\ workers = NoWorkers
    /\ held = NoneHeld
    /\ manager = NoManager

\* Two threads start, each to call update_regrets on the solver just
\* constructed.
StartWorkers ==
    /\ solver # NoSolver
    /\ workers = NoWorkers
    /\ \E i1 \in FirstDecisions(solver), i2 \in FirstDecisions(solver) :
       \E a1 \in DOMAIN solver.policy[i1], a2 \in DOMAIN solver.policy[i2] :
       \E r1 \in RegretsTried, r2 \in RegretsTried :
          workers' = <<update_regrets_frame(i1, a1, r1), update_regrets_frame(i2, a2, r2)>>
    /\ UNCHANGED <<impl, hand, last, tree, solver, held, manager>>

\* The other thread's frames after worker w replaced the dict of info_state
\* in a table: a thread about to store into the dict it loaded from (pc) now
\* stores into a dict no table holds.
Replaced(w, frame, pc) ==
    LET others(v) == IF workers[v].pc = pc /\ workers[v].info_state = frame.info_state
                    THEN [workers[v] EXCEPT !.orphan = TRUE]
                    ELSE workers[v]
    IN <<IF w = 1 THEN frame ELSE others(1), IF w = 2 THEN frame ELSE others(2)>>

\* if info_state not in self.regret_sum
TestRegretSum(w) ==
    /\ workers # NoWorkers
    /\ workers[w].pc = "test_regret_sum"
    /\ workers' = [workers EXCEPT ![w].pc =
                      IF workers[w].info_state \notin DOMAIN solver.regret_sum
                      THEN "new_regret_sum" ELSE "test_strategy_sum"]
    /\ UNCHANGED <<impl, hand, last, tree, solver, held, manager>>

\* self.regret_sum[info_state] = {action: 0.0 for action in ...}
NewRegretSum(w) ==
    /\ workers # NoWorkers
    /\ workers[w].pc = "new_regret_sum"
    /\ solver' = [solver EXCEPT !.regret_sum =
                     dict_set(@, workers[w].info_state,
                              [a \in DOMAIN solver.policy[workers[w].info_state] |-> FInt(0)])]
    /\ workers' = Replaced(w, [workers[w] EXCEPT !.pc = "test_strategy_sum"], "store_regret")
    /\ UNCHANGED <<impl, hand, last, tree, held, manager>>

\* if info_state not in self.strategy_sum
TestStrategySum(w) ==
    /\ workers # NoWorkers
    /\ workers[w].pc = "test_strategy_sum"
    /\ workers' = [workers EXCEPT ![w].pc =
                      IF workers[w].info_state \notin DOMAIN solver.strategy_sum
                      THEN "new_strategy_sum" ELSE "load_regret"]
    /\ UNCHANGED <<impl, hand, last, tree, solver, held, manager>>

\* self.strategy_sum[info_state] = {action: 0.0 for action in ...}
NewStrategySum(w) ==
    /\ workers # NoWorkers
    /\ workers[w].pc = "new_strategy_sum"
    /\ solver' = [solver EXCEPT !.strategy_sum =
                     dict_set(@, workers[w].info_state,
                              [a \in DOMAIN solver.policy[workers[w].info_state] |-> FInt(0)])]
    /\ workers' = Replaced(w, [workers[w] EXCEPT !.pc = "load_regret"], "store_strategy_sum")
    /\ UNCHANGED <<impl, hand, last, tree, held, manager>>

\* self.regret_sum[info_state][action] += regret, the load
LoadRegret(w) ==
    /\ workers # NoWorkers
    /\ workers[w].pc = "load_regret"
    /\ workers' = [workers EXCEPT ![w] =
                      [@ EXCEPT !.pc = "store_regret", !.orphan = FALSE,
                                !.held = solver.regret_sum[workers[w].info_state][workers[w].action]]]
    /\ UNCHANGED <<impl, hand, last, tree, solver, held, manager>>

\* self.regret_sum[info_state][action] += regret, the store
StoreRegret(w) ==
    /\ workers # NoWorkers
    /\ workers[w].pc = "store_regret"
    /\ solver' = IF workers[w].orphan THEN solver
                 ELSE [solver EXCEPT !.regret_sum =
                          dict_set(@, workers[w].info_state,
                                   (workers[w].action :> FAdd(workers[w].held, workers[w].regret))
                                       @@ @[workers[w].info_state])]
    /\ workers' = [workers EXCEPT ![w] = [@ EXCEPT !.pc = "get_strategy", !.orphan = FALSE]]
    /\ UNCHANGED <<impl, hand, last, tree, held, manager>>

\* strategy = self.get_strategy(info_state), and the start of the loop over
\* strategy.items()
GetStrategy(w) ==
    /\ workers # NoWorkers
    /\ workers[w].pc = "get_strategy"
    /\ LET strategy == get_strategy(solver, workers[w].info_state)
       IN workers' = [workers EXCEPT ![w] =
                         [@ EXCEPT !.pc = "load_strategy_sum", !.strategy = strategy,
                                   !.todo = dict_keys(strategy)]]
    /\ UNCHANGED <<impl, hand, last, tree, solver, held, manager>>

\* self.strategy_sum[info_state][a] += prob, the load; the call returns when
\* the loop is over
LoadStrategySum(w) ==
    /\ workers # NoWorkers
    /\ workers[w].pc = "load_strategy_sum"
    /\ workers' = [workers EXCEPT ![w] =
                      IF @.todo = <<>> THEN [@ EXCEPT !.pc = "return"]
                      ELSE [@ EXCEPT !.pc = "store_strategy_sum", !.orphan = FALSE,
                                     !.held = solver.strategy_sum[workers[w].info_state][Head(workers[w].todo)]]]
    /\ UNCHANGED <<impl, hand, last, tree, solver, held, manager>>

\* self.strategy_sum[info_state][a] += prob, the store
StoreStrategySum(w) ==
    /\ workers # NoWorkers
    /\ workers[w].pc = "store_strategy_sum"
    /\ LET a == Head(workers[w].todo)
       IN solver' = IF workers[w].orphan THEN solver
                    ELSE [solver EXCEPT !.strategy_sum =
                             dict_set(@, workers[w].info_state,
                                      (a :> FAdd(workers[w].held, workers[w].strategy[a]))
                                          @@ @[workers[w].info_state])]
    /\ workers' = [workers EXCEPT ![w] =
                      [@ EXCEPT !.pc = "load_strategy_sum", !.orphan = FALSE,
                                !.todo = Tail(@)]]
    /\ UNCHANGED <<impl, hand, last, tree, held, manager>>

ParallelNext ==
    \/ BuildRecursive
    \/ StrategyInit
    \/ StartWorkers
    \/ \E w \in Worker : TestRegretSum(w)
    \/ \E w \in Worker : NewRegretSum(w)
    \/ \E w \in Worker : TestStrategySum(w)
    \/ \E w \in Worker : NewStrategySum(w)
    \/ \E w \in Worker : LoadRegret(w)
    \/ \E w \in Worker : StoreRegret(w)
    \/ \E w \in Worker : GetStrategy(w)
    \/ \E w \in Worker : LoadStrategySum(w)
    \/ \E w \in Worker : StoreStrategySum(w)

ParallelSpec == ParallelInit /\ [][ParallelNext]_vars

\* Both calls have returned.
BothReturned ==
    /\ workers # NoWorkers
    /\ \A w \in Worker : workers[w].pc = "return"

\* What the calls of the workers add to regret_sum[info_state][a]
RegretAdded(info_state, a) ==
    LET added(w) == IF workers[w].info_state = info_state /\ workers[w].action = a
                    THEN workers[w].regret ELSE FInt(0)
    IN FAdd(added(1), added(2))

\* The calls of the workers on info_state
CallsOn(info_state) == Cardinality({w \in Worker : workers[w].info_state = info_state})

\* C27 (as stated): when two workers have updated the tables of one
\* CFRStrategy in parallel, every increment of both is in the tables: each
\* regret is the sum of the regrets added to it, and each InfoState's strategy
\* sums add up to one per call on it.
C27_NoLostUpdate ==
    BothReturned =>
        \A w \in Worker :
            LET info_state == workers[w].info_state
            IN /\ info_state \in DOMAIN solver.regret_sum
               /\ info_state \in DOMAIN solver.strategy_sum
               /\ \A a \in DOMAIN solver.policy[info_state] :
                     solver.regret_sum[info_state][a] = RegretAdded(info_state, a)
               /\ sum_values(solver.strategy_sum[info_state]) = FInt(CallsOn(info_state))

\* Both workers have updated the same InfoState and returned.
C27_Witness ==
    /\ BothReturned
    /\ workers[1].info_state = workers[2].info_state

\* The calls of two workers on different InfoStates lose nothing.
C27_DisjointCallsKeepAll ==
    (BothReturned /\ workers[1].info_state # workers[2].info_state) =>
        \A w \in Worker :
            /\ solver.regret_sum[workers[w].info_state][workers[w].action] = workers[w].regret
            /\ sum_values(solver.strategy_sum[workers[w].info_state]) = FInt(1)

(***************************************************************************)
(* get_strategy called from outside, between the passes of train and       *)
(* after it, on any InfoState of the policy.                               *)
(***************************************************************************)
CurrentStrategy ==
    /\ solver # NoSolver
    /\ last.op # "get_strategy"
    /\ \E info_state \in DOMAIN solver.policy :
          last' = SolverCall("get_strategy",
                             [info_state |-> info_state,
                              strategy |-> get_strategy(solver, info_state)],
                             solver)
    /\ UNCHANGED <<impl, hand, tree, solver, workers, held, manager>>

\* get_strategy changes nothing of the solver, so train is followed from the
\* states without the call only.
StrategyNext ==
    \/ BuildRecursive
    \/ StrategyInit
    \/ last.op # "get_strategy" /\ TrainIteration
    \/ last.op # "get_strategy" /\ UpdatePolicy
    \/ CurrentStrategy

StrategySpec == SolverInit /\ [][StrategyNext]_vars

\* Regret matching on the regret table of sv: the weight of a legal action is
\* max(0, accumulated regret), nothing for an InfoState not in the table.
RegretMatched(sv, info_state, legal) ==
    LET weight == [a \in legal |->
                      IF info_state \in DOMAIN sv.regret_sum
                      THEN FMax0(sv.regret_sum[info_state][a]) ELSE FInt(0)]
        total == sum_values(weight)
    IN [a \in legal |-> IF FPositive(total) THEN FDiv(weight[a], total)
                        ELSE Frac(1, Cardinality(legal))]

\* C28 (as stated): get_strategy gives every InfoState the regret-matched
\* distribution over exactly its legal actions, uniform when no weight is
\* positive or the InfoState is not in the regret table, and it sums to 1.
C28_RegretMatching ==
    (solver # NoSolver /\ last.op = "get_strategy") =>
        LET legal == LegalActionsOf(solver.config, last.ret.info_state)
        IN /\ DOMAIN last.ret.strategy = legal
           /\ last.ret.strategy = RegretMatched(solver, last.ret.info_state, legal)
           /\ sum_values(last.ret.strategy) = FInt(1)

\* get_strategy was called, after training, on the InfoState of the undealt
\* root of the game tree.
C28_Witness ==
    /\ solver # NoSolver
    /\ last.op = "get_strategy"
    /\ solver.iterations >= 1
    /\ last.ret.info_state.card = None

\* For the InfoState of a dealt hand, get_strategy is the regret-matched
\* distribution over the legal actions and sums to 1.
C28_RegretMatchingOfDealt ==
    (solver # NoSolver /\ last.op = "get_strategy" /\ last.ret.info_state.card # None) =>
        LET legal == LegalActionsOf(solver.config, last.ret.info_state)
        IN /\ DOMAIN last.ret.strategy = legal
           /\ last.ret.strategy = RegretMatched(solver, last.ret.info_state, legal)
           /\ sum_values(last.ret.strategy) = FInt(1)

\* get_strategy was called on an InfoState with a positive and a negative
\* accumulated regret.
C28_PositiveAndNegativeRegret ==
    /\ solver # NoSolver
    /\ last.op = "get_strategy"
    /\ last.ret.info_state \in DOMAIN solver.regret_sum
    /\ \E a, b \in DOMAIN solver.regret_sum[last.ret.info_state] :
          /\ FPositive(solver.regret_sum[last.ret.info_state][a])
          /\ FPositive(FNeg(solver.regret_sum[last.ret.info_state][b]))

(***************************************************************************)
(* What one iteration adds to the strategy sums.  An InfoState holds the   *)
(* player's card and the whole action history, so a pass of train, which   *)
(* plays one deal, visits the nodes of an InfoState at most once.          *)
(***************************************************************************)
\* sum(self.strategy_sum[info_state].values()), 0 for an InfoState not there
StrategySumTotal(sv, info_state) ==
    IF info_state \in DOMAIN sv.strategy_sum
    THEN sum_values(sv.strategy_sum[info_state]) ELSE FInt(0)

StrategySumGrowth(info_state) ==
    FSub(StrategySumTotal(solver, info_state), StrategySumTotal(last.pre, info_state))

\* C29 (as stated): the visit of a node adds the current strategy to the
\* strategy sums of its InfoState once, so over one iteration the total
\* strategy sum of an InfoState grows by 1 if it was visited and by 0 if not.
C29_StrategySumGrowsByOne ==
    (solver # NoSolver /\ last.op = "_cfr_iteration") =>
        \A info_state \in DOMAIN solver.strategy_sum :
            StrategySumGrowth(info_state) \in {FInt(0), FInt(1)}

\* An iteration has visited a node of an InfoState.
C29_Witness ==
    /\ solver # NoSolver
    /\ last.op = "_cfr_iteration"
    /\ \E info_state \in DOMAIN solver.strategy_sum :
          FPositive(StrategySumGrowth(info_state))

\* Over one iteration the total strategy sum of a visited InfoState grows by
\* the number of its actions: update_regrets adds a strategy at each call.
C29_StrategySumGrowsByActions ==
    (solver # NoSolver /\ last.op = "_cfr_iteration") =>
        \A info_state \in DOMAIN solver.strategy_sum :
            StrategySumGrowth(info_state) \in
                {FInt(0), FInt(Cardinality(DOMAIN solver.policy[info_state]))}

(***************************************************************************)
(* The regrets of one iteration, derived from the deal.  A pass of train   *)
(* visits an InfoState at most once and changes the regrets of an          *)
(* InfoState only at its visit, so the current strategy at every node of   *)
(* the pass is the one of the solver before the pass.                      *)
(***************************************************************************)
\* The state of the hand dealt d after the first k actions of a history
RECURSIVE NodeAfter(_, _, _, _)
NodeAfter(cfg, d, history, k) ==
    IF k = 0 THEN deal_cards(HandState_post_init(cfg), d).state
    ELSE process_action(NodeAfter(cfg, d, history, k - 1), history[k][2]).state

\* The value of a state for the player at pos when both players follow the
\* current strategy of sv: the stack at the end of the hand, else the
\* strategy-weighted sum of the values of the children.
RECURSIVE StrategyValue(_, _, _)
StrategyValue(sv, s, pos) ==
    IF s.is_over THEN FInt(s.players[pos + 1].stack)
    ELSE LET strategy == get_strategy(sv, get_info_state(s, s.acting_pos))
         IN sum_values([a \in DOMAIN strategy |->
                FMul(strategy[a], StrategyValue(sv, process_action(s, a).state, pos))])

\* The probability that the player at pos, following the current strategy of
\* sv, takes its actions among the first k of a history of the hand dealt d
RECURSIVE ReachOf(_, _, _, _, _)
ReachOf(sv, d, history, k, pos) ==
    IF k = 0 THEN FInt(1)
    ELSE LET s == NodeAfter(sv.config, d, history, k - 1)
             rest == ReachOf(sv, d, history, k - 1, pos)
         IN IF history[k][1] # pos THEN rest
            ELSE FMul(rest, get_strategy(sv, get_info_state(s, s.acting_pos))[history[k][2]])

\* regret_sum[info_state][a], 0 for an InfoState not in the table
RegretOf(sv, info_state, a) ==
    IF info_state \in DOMAIN sv.regret_sum THEN sv.regret_sum[info_state][a] ELSE FInt(0)

\* C30: over one iteration, the regret added for an action at a node is the
\* opponent's reach probability into the node (the product of the current-
\* strategy probabilities of the opponent's actions on the way, the acting
\* player's own not counted) times the action's child value for the acting
\* player minus the node's strategy-weighted value for the acting player.
C30_RegretOfIteration ==
    (solver # NoSolver /\ last.op = "_cfr_iteration") =>
        \E d \in shuffle_pop2(get_deck(solver.config)) :
            \A info_state \in DOMAIN solver.regret_sum :
                LET history == info_state.actions_taken
                    s == NodeAfter(solver.config, d, history, Len(history))
                    visited == get_info_state(s, s.acting_pos) = info_state
                    reach_prob == ReachOf(last.pre, d, history, Len(history),
                                          other(info_state.pos))
                IN \A a \in DOMAIN solver.regret_sum[info_state] :
                      FSub(solver.regret_sum[info_state][a], RegretOf(last.pre, info_state, a)) =
                          IF visited
                          THEN FMul(reach_prob,
                                    FSub(StrategyValue(last.pre, process_action(s, a).state,
                                                       info_state.pos),
                                         StrategyValue(last.pre, s, info_state.pos)))
                          ELSE FInt(0)

\* An iteration has added a regret at a node the opponent's action leads to.
C30_Witness ==
    /\ solver # NoSolver
    /\ last.op = "_cfr_iteration"
    /\ \E info_state \in DOMAIN solver.regret_sum :
          /\ info_state.actions_taken # <<>>
          /\ \E a \in DOMAIN solver.regret_sum[info_state] :
                RegretOf(solver, info_state, a) # RegretOf(last.pre, info_state, a)

(***************************************************************************)
(* The nodes one iteration visits.  A node of the subtree of a deal is     *)
(* told from the others by its action history.                             *)
(***************************************************************************)
\* The states of the subtree below s: s and, unless s is terminal, the
\* subtrees of the states its legal actions lead to.
RECURSIVE SubtreeOf(_)
SubtreeOf(s) ==
    IF s.is_over THEN {s}
    ELSE {s} \cup UNION {SubtreeOf(process_action(s, a).state) : a \in LegalSet(s)}

NoDuplicates(q) == \A i, j \in 1..Len(q) : q[i] = q[j] => i = j

\* C31: one training iteration calls _cfr_recursive on every node of the
\* subtree of the dealt cards, terminal or not, exactly once, and
\* update_regrets on every (InfoState, legal action) of the subtree's
\* non-terminal nodes exactly once.
C31_EveryNodeOnce ==
    (solver # NoSolver /\ last.op = "_cfr_iteration" /\ solver.raise_after = NoRaise) =>
        \E d \in shuffle_pop2(get_deck(solver.config)) :
            LET nodes == SubtreeOf(deal_cards(HandState_post_init(solver.config), d).state)
            IN /\ NoDuplicates(solver.visited)
               /\ Range(solver.visited) = {s.actions_taken : s \in nodes}
               /\ Len(solver.visited) = Cardinality(nodes)
               /\ NoDuplicates(solver.updated)
               /\ Range(solver.updated) =
                      UNION {{<<get_info_state(s, s.acting_pos), a>> : a \in LegalSet(s)} :
                                s \in {n \in nodes : ~n.is_over}}

\* An iteration has run over a subtree with a raise in it.
C31_Witness ==
    /\ solver # NoSolver
    /\ last.op = "_cfr_iteration"
    /\ solver.raise_after = NoRaise
    /\ \E i \in 1..Len(solver.updated) : solver.updated[i][2] = RAISE
    /\ Len(solver.visited) > Len(solver.updated)

\* The non-terminal nodes of the subtrees of all the deals of a config
InnerNodes(cfg) ==
    UNION {{s \in SubtreeOf(deal_cards(HandState_post_init(cfg), d).state) : ~s.is_over} :
              d \in shuffle_pop2(get_deck(cfg))}

\* C32: the policy seeded from the game tree has, for the acting player's
\* InfoState of every non-terminal dealt node, the uniform distribution over
\* exactly the legal actions; and at any time the regret and strategy-sum
\* tables hold only keys of the policy, each over exactly the legal actions,
\* an entry made during the latest iteration having started at zero.
C32_PolicyCoversTree ==
    solver # NoSolver =>
        /\ \A s \in InnerNodes(solver.config) :
              LET info_state == get_info_state(s, s.acting_pos)
              IN /\ info_state \in DOMAIN solver.policy
                 /\ DOMAIN solver.policy[info_state] = LegalSet(s)
                 /\ solver.iterations = 0 =>
                        solver.policy[info_state] = Uniform(LegalSet(s))
        /\ DOMAIN solver.regret_sum = DOMAIN solver.strategy_sum
        /\ \A info_state \in DOMAIN solver.regret_sum :
              /\ info_state \in DOMAIN solver.policy
              /\ DOMAIN solver.regret_sum[info_state] =
                     LegalActionsOf(solver.config, info_state)
              /\ DOMAIN solver.strategy_sum[info_state] =
                     LegalActionsOf(solver.config, info_state)
              /\ (last.op = "_cfr_iteration" /\ info_state \notin DOMAIN last.pre.regret_sum) =>
                    /\ sum_values(solver.regret_sum[info_state]) = FInt(0)
                    /\ sum_values(solver.strategy_sum[info_state]) =
                           FInt(Cardinality(LegalActionsOf(solver.config, info_state)))

\* An iteration has made table entries for InfoStates it visited first.
C32_Witness ==
    /\ solver # NoSolver
    /\ last.op = "_cfr_iteration"
    /\ \E info_state \in DOMAIN solver.regret_sum :
          /\ info_state \notin DOMAIN last.pre.regret_sum
          /\ \E a \in DOMAIN solver.regret_sum[info_state] :
                solver.regret_sum[info_state][a] # FInt(0)

(***************************************************************************)
(* Objects made from a hand.  A Python list is an object: whoever holds a  *)
(* reference to the list of a HandState sees what process_action appends   *)
(* to it.  held is an object the caller got from the hand: its fields as   *)
(* they were when it was made (value) and the names of the fields that are *)
(* the very objects of the hand (shared), not copies of them.              *)
(***************************************************************************)
\* Mutant of clone: copy(self), a new HandState whose lists are those of self.
clone_shallow(s) ==
    [state |-> s,
     shared |-> IF impl = METHOD THEN {"cards", "stacks", "actions"}
                ELSE {"players", "actions_taken"}]

\* HandState.clone: deepcopy(self), which copies every object self refers to
clone(s) == [state |-> s, shared |-> {}]

\* InfoState(..., actions = self.actions, ...) of HandState.get_info_state and
\* InfoState(..., actions_taken = state.actions_taken, ...) of get_info_state:
\* the list of the state itself; valid_actions is a list get_valid_actions
\* has just made, card and result are values.
InfoState_shared == IF impl = METHOD THEN {"actions"} ELSE {"actions_taken"}

\* The fields of the held object as they are now
HeldNow == [f \in DOMAIN held.value |->
               IF f \in held.shared THEN hand[f] ELSE held.value[f]]

SnapshotConfigs == {cfg \in GameConfig : cfg.deck_size = MinDeckSize /\ cfg.ante = 1}

SnapshotInit ==
    /\ impl \in {METHOD, MODULE_LEVEL}
    /\ \E cfg \in SnapshotConfigs :
          hand = IF impl = METHOD THEN HandState_init(cfg) ELSE HandState_post_init(cfg)
    /\ last = Call("init", "none", OK, <<>>, hand)
    /\ tree = NoTree
    /\ solver = NoSolver
    /\ workers = NoWorkers
    /\ held = NoneHeld
    /\ manager = NoManager

\* info_state = state.get_info_state(pos), or get_info_state(state, pos), kept
\* by the caller while the hand goes on
HoldInfoState ==
    /\ held = NoneHeld
    /\ Dealt(hand)
    /\ \E pos \in {0, 1} :
          held' = [kind |-> "InfoState",
                   value |-> IF impl = METHOD THEN HandState_get_info_state(hand, pos).info
                             ELSE get_info_state(hand, pos),
                   shared |-> InfoState_shared]
    /\ last' = Call("get_info_state", "none", OK, <<>>, hand)
    /\ UNCHANGED <<impl, hand, tree, solver, workers, manager>>

\* new_state = state.clone(): the hand played from here on is the clone, the
\* caller keeps the state it was cloned from
CloneState ==
    /\ held = NoneHeld
    /\ held' = [kind |-> "HandState", value |-> hand, shared |-> clone(hand).shared]
    /\ hand' = clone(hand).state
    /\ last' = Call("clone", "none", OK, <<>>, hand)
    /\ UNCHANGED <<impl, tree, solver, workers, manager>>

SnapshotNext ==
    \/ DealCardsMethod
    \/ DealCardsModule
    \/ ProcessActionMethod
    \/ ProcessActionModule
    \/ DealChildModule
    \/ HoldInfoState
    \/ CloneState

SnapshotSpec == SnapshotInit /\ [][SnapshotNext]_vars

C37_InfoStateIsSnapshot ==
    held.kind = "InfoState" => HeldNow = held.value

\* An action was applied to the HandState after an InfoState was obtained
\* from it.
C37_Witness ==
    /\ held.kind = "InfoState"
    /\ last.op = "process_action"
    /\ last.err = OK

\* What does not change in a held InfoState: position, card and result.
C37_CardAndResultKept ==
    held.kind = "InfoState" =>
        /\ HeldNow.pos = held.value.pos
        /\ HeldNow.card = held.value.card
        /\ HeldNow.result = held.value.result

(***************************************************************************)
(* A HandState as a function of its config, cards and action history.      *)
(***************************************************************************)
\* The fields of a HandState that __eq__ does not compare are the same in a and b.
SameDerived(a, b) ==
    /\ a.pot = b.pot
    /\ a.stacks = b.stacks
    /\ a.current_bet = b.current_bet
    /\ a.raises_made = b.raises_made
    /\ a.acting_pos = b.acting_pos
    /\ a.is_over = b.is_over
    /\ a.showdown = b.showdown
    /\ a.winner_pos = b.winner_pos

\* from_cards_actions of the config, cards and action history of s returns,
\* and what it returns has the derived fields of s.
Replayed(s) ==
    \A r \in HandState_from_cards_actions(s.config, s.cards, s.actions) :
        r.err = OK /\ SameDerived(r.state, s)

\* action is legal at s: get_valid_actions returns a list that holds it.
LegalAt(s, action) ==
    LET v == HandState_get_valid_actions(s)
    IN v.err = OK /\ \E i \in 1..Len(v.valid) : v.valid[i] = action

\* from_cards_actions of the history of s followed by a and b fails at a when
\* a is not legal at s, at b when a is legal and b is not legal after a, and
\* returns when both are legal.
FailsAtFirstIllegal(s) ==
    \A a \in Action, b \in Action :
        \A r \in HandState_from_cards_actions(s.config, s.cards, s.actions \o <<a, b>>) :
            IF ~LegalAt(s, a)
            THEN r.err # OK /\ r.err = HandState_process_action(s, a).err
                 /\ r.state.actions = s.actions
            ELSE LET s1 == HandState_process_action(s, a).state IN
                 IF ~LegalAt(s1, b)
                 THEN r.err # OK /\ r.err = HandState_process_action(s1, b).err
                      /\ r.state.actions = Append(s.actions, a)
                 ELSE r.err = OK /\ r.state.actions = s.actions \o <<a, b>>

\* C34 (as stated): every reachable HandState is what from_cards_actions makes
\* of its config, cards and actions: the call returns and the pot, stack
\* deltas, current_bet, raises_made, acting_pos, is_over, showdown and
\* winner_pos are those of the state.
C34_FunctionOfHistory ==
    impl = METHOD => Replayed(hand)

\* C34: every reachable HandState whose cards are dealt is what
\* from_cards_actions makes of its config, cards and actions, with the same
\* pot, stack deltas, current_bet, raises_made, acting_pos, is_over, showdown
\* and winner_pos, and from_cards_actions of a longer list fails at the first
\* action that is not legal at that point.
C34_DealtFunctionOfHistory ==
    (impl = METHOD /\ hand.cards_dealt) => (Replayed(hand) /\ FailsAtFirstIllegal(hand))

\* A hand that ended at a showdown after a bet, a raise and a call.
C34_Witness ==
    /\ impl = METHOD
    /\ hand.cards_dealt
    /\ hand.actions = <<BET, RAISE, CALL>>
    /\ hand.is_over
    /\ hand.showdown
    /\ Replayed(hand)

(***************************************************************************)
(* The HandState method against the module-level process_action.           *)
(***************************************************************************)
\* The module-level state after the deal and the actions of the HandState s.
ModuleLevelOf(s) == tree_node_state(s.config, s.cards, s.actions)

\* The fields the two implementations share are the same in the HandState a
\* and the module-level state b.
SameHand(a, b) ==
    /\ a.current_bet = b.current_bet
    /\ a.pot = b.pot
    /\ a.stacks = <<b.players[1].stack, b.players[2].stack>>
    /\ a.raises_made = b.raises_made
    /\ a.acting_pos = b.acting_pos
    /\ a.is_over = b.is_over
    /\ a.winner_pos = b.winner_pos

\* The two implementations accept the same actions at a and b.
SameAccepted(a, b) ==
    \A action \in Action :
        (HandState_process_action(a, action).err = OK)
            <=> (process_action(b, action).err = OK)

\* C35: after every sequence of actions the HandState method accepted, the
\* module-level process_action has accepted the same sequence from the same
\* deal, the two states have the same current_bet, pot, stack deltas,
\* raises_made, acting_pos, is_over and winner_pos, and they accept the same
\* next actions.
C35_ImplementationsAgree ==
    (impl = METHOD /\ hand.cards_dealt) =>
        LET m == ModuleLevelOf(hand)
        IN m.err = OK /\ SameHand(hand, m.state) /\ SameAccepted(hand, m.state)

\* A hand of the HandState method after a bet and a raise.
C35_Witness ==
    /\ impl = METHOD
    /\ hand.cards_dealt
    /\ hand.actions = <<BET, RAISE>>
    /\ ModuleLevelOf(hand).err = OK

\* The two implementations accept the same sequences, and agree on every field
\* as long as no RAISE was made.
C35_AgreeBeforeRaise ==
    (impl = METHOD /\ hand.cards_dealt) =>
        LET m == ModuleLevelOf(hand)
        IN /\ m.err = OK
           /\ SameAccepted(hand, m.state)
           /\ hand.acting_pos = m.state.acting_pos
           /\ hand.raises_made = m.state.raises_made
           /\ hand.is_over = m.state.is_over
           /\ hand.winner_pos = m.state.winner_pos
           /\ hand.raises_made = 0 => SameHand(hand, m.state)

(***************************************************************************)
(* What a CALL pays in the HandState method.                               *)
(***************************************************************************)
\* The hand ended at a showdown by a CALL of the HandState method.
CalledShowdown ==
    /\ impl = METHOD
    /\ hand.is_over
    /\ hand.showdown
    /\ hand.actions # <<>>
    /\ hand.actions[Len(hand.actions)] = CALL

\* What position pos has put in the pot of the ended hand: the pot it was
\* awarded, if it won, less its stack delta.
Contributed(s, pos) ==
    (IF s.winner_pos = pos THEN s.pot ELSE 0) - s.stacks[pos + 1]

\* C36: at every showdown reached by CALL in the HandState method, after any
\* number of raises, the two players have put equal totals in the pot, and
\* the loser's stack delta is minus half of the pot.
C36_CallMatchesBet ==
    CalledShowdown =>
        /\ Contributed(hand, 0) = Contributed(hand, 1)
        /\ Contributed(hand, 0) + Contributed(hand, 1) = hand.pot
        /\ 2 * hand.stacks[other(hand.winner_pos) + 1] = -hand.pot

\* A showdown by CALL after a bet and two raises.
C36_Witness ==
    /\ CalledShowdown
    /\ hand.actions = <<BET, RAISE, RAISE, CALL>>
    /\ hand.raises_made = 2
    /\ hand.pot > 0

(***************************************************************************)
(* CFRStrategy.calculate_ev on a trained solver.                           *)
(***************************************************************************)
\* The passes of calculate_ev's loop (iterations = 1000 in the code).
EvIterations == 1

\* The end of a pass of calculate_ev's loop: ev += values[position]
ev_added(values, position, ev) ==
    [sv |-> values.sv, ev |-> FAdd(ev, values.value[position + 1])]

\* The for loop of calculate_ev, dealt the opponent's card of each pass left:
\* a new hand with card at position and the opponent's card at the other,
\* then _cfr_recursive(state, 1.0, 1.0) on this solver, its value added to ev.
RECURSIVE calculate_ev_from(_, _, _, _)
calculate_ev_from(r, card, position, dealt) ==
    IF dealt = <<>> THEN r
    ELSE calculate_ev_from(
            ev_added(_cfr_recursive([r.sv EXCEPT !.visited = <<>>, !.updated = <<>>],
                                    build_deal_child(HandState_post_init(r.sv.config),
                                                     IF position = 0
                                                     THEN <<card, Head(dealt)>>
                                                     ELSE <<Head(dealt), card>>),
                                    FInt(1), FInt(1)),
                     position, r.ev),
            card, position, Tail(dealt))

\* return ev / iterations
ev_returned(r, iterations) == [sv |-> r.sv, ret |-> FDiv(r.ev, FInt(iterations))]

\* CFRStrategy.calculate_ev(card, position): what it returns and the solver
\* after it.
calculate_ev(sv, card, position, dealt) ==
    ev_returned(calculate_ev_from([sv |-> sv, ev |-> FInt(0)], card, position, dealt),
                Len(dealt))

\* calculate_ev on a solver whose train has just returned.
CalculateEv ==
    /\ solver # NoSolver
    /\ solver.raise_after = NoRaise
    /\ last.op = "_update_policy_with_average_strategy"
    /\ last.before.op = "_cfr_iteration"
    /\ \E card \in Range(get_deck(solver.config)), position \in {0, 1} :
          \E dealt \in [1..EvIterations -> Range(get_deck(solver.config)) \ {card}] :
             \E r \in {calculate_ev(solver, card, position, dealt)} :
                /\ solver' = r.sv
                /\ last' = SolverCall("calculate_ev", r.ret, solver)
    /\ UNCHANGED <<impl, hand, tree, workers, held, manager>>

\* The configs evaluated: one raise at most, so that a pass stays shallow.
EvalConfigs == {cfg \in SolverConfigs : cfg.max_raises <= 1 /\ cfg.ante >= 1}

EvalInit ==
    /\ impl = MODULE_LEVEL
    /\ \E cfg \in EvalConfigs :
          /\ hand = HandState_post_init(cfg)
          /\ tree = build_game_tree(cfg)
    /\ last = Call("init", "none", OK, <<>>, hand)
    /\ solver = NoSolver
    /\ workers = NoWorkers
    /\ held = NoneHeld
    /\ manager = NoManager

EvalNext ==
    \/ BuildRecursive
    \/ StrategyInit
    \/ TrainIteration
    \/ UpdatePolicy
    \/ CalculateEv

EvalSpec == EvalInit /\ [][EvalNext]_vars

\* C38: calculate_ev leaves regret_sum, strategy_sum, policy and the iteration
\* counter as they were before the call.
C38_EvaluationReadOnly ==
    (solver # NoSolver /\ last.op = "calculate_ev") =>
        /\ solver.regret_sum = last.pre.regret_sum
        /\ solver.strategy_sum = last.pre.strategy_sum
        /\ solver.policy = last.pre.policy
        /\ solver.iterations = last.pre.iterations

\* calculate_ev has returned on a solver trained for an iteration.
C38_Witness ==
    /\ solver # NoSolver
    /\ last.op = "calculate_ev"
    /\ last.pre.iterations >= 1
    /\ last.before.op = "_update_policy_with_average_strategy"

\* calculate_ev leaves the policy and the iteration counter, and every total
\* of strategy_sum it touches has grown.
C38_PolicyAndCounterKept ==
    (solver # NoSolver /\ last.op = "calculate_ev") =>
        /\ solver.policy = last.pre.policy
        /\ solver.iterations = last.pre.iterations
        /\ solver.strategy_sum # last.pre.strategy_sum
        /\ \A info_state \in DOMAIN solver.strategy_sum :
              ~FPositive(FNeg(StrategySumGrowth(info_state)))

(***************************************************************************)
(* Whose turn it is.                                                       *)
(***************************************************************************)
\* C39: in every reachable HandState of either implementation, terminal ones
\* included, acting_pos is the number of actions taken modulo 2; the positions
\* the module-level history records alternate from 0; and the InfoState of the
\* acting player has that position.
C39_ActingPosIsParity ==
    /\ hand.acting_pos = Len(History(hand)) % 2
    /\ impl = MODULE_LEVEL =>
          \A i \in 1..Len(hand.actions_taken) : hand.actions_taken[i][1] = (i - 1) % 2
    /\ Dealt(hand) => InfoOf(hand, hand.acting_pos).pos = Len(History(hand)) % 2

\* A hand of the HandState method that ended after three actions, and so with
\* position 1 to act.
C39_Witness ==
    /\ impl = METHOD
    /\ Applied(CALL)
    /\ hand.is_over
    /\ Len(History(hand)) = 3
    /\ hand.acting_pos = 1

(***************************************************************************)
(* GameManager: a session of hands between the human and the computer.     *)
(* Both GameManager classes are modelled, the one over the HandState       *)
(* method and the one over the module-level process_action; manager.pc     *)
(* says whether play_hand is in its loop, manager.hands counts its         *)
(* returns.                                                                *)
(***************************************************************************)
MaxHands == 2           \* hands of a session

InitialStacksTried == {0, 100}
ManagerConfigs == {cfg \in GameConfig : cfg.deck_size = MinDeckSize}

\* GameManager.__init__(initial_stack, config)
GameManager_init(cfg, initial_stack) ==
    [config |-> cfg,
     initial_stack |-> initial_stack,
     human_stack |-> initial_stack,
     computer_stack |-> initial_stack,
     human_pos |-> 1,
     pc |-> "idle",
     hands |-> 0]

\* HandState(self.config), not dealt
NewHand(cfg) == IF impl = METHOD THEN HandState_init(cfg) ELSE HandState_post_init(cfg)

\* _get_action(state): the actions the call can return.  The human's comes
\* from get_human_action, which asks again until the input is one of the
\* valid actions; the computer's from the policy entry of the acting player's
\* InfoState, whose actions are the valid ones.
_get_action(m, s) ==
    [by |-> IF s.acting_pos = m.human_pos THEN "human" ELSE "computer",
     actions |-> Range(ValidActions(s).valid)]

\* Mutant of _update_stacks: the computer is credited with the stack delta of
\* the human's position.
_update_stacks_same_position(m, s) ==
    [m EXCEPT !.human_stack = @ + Stacks(s)[m.human_pos + 1],
              !.computer_stack = @ + Stacks(s)[m.human_pos + 1]]

\* _update_stacks(state)
_update_stacks(m, s) ==
    [m EXCEPT !.human_stack = @ + Stacks(s)[m.human_pos + 1],
              !.computer_stack = @ + Stacks(s)[((1 - m.human_pos) % 2) + 1]]

ManagerInit ==
    /\ impl \in {METHOD, MODULE_LEVEL}
    /\ \E cfg \in ManagerConfigs, initial_stack \in InitialStacksTried :
          /\ manager = GameManager_init(cfg, initial_stack)
          /\ hand = NewHand(cfg)
    /\ last = Call("init", "none", OK, <<>>, hand)
    /\ tree = NoTree
    /\ solver = NoSolver
    /\ workers = NoWorkers
    /\ held = NoneHeld

\* play_hand up to its loop: a new HandState, dealt.
PlayHandDeal ==
    /\ manager.pc = "idle"
    /\ manager.hands < MaxHands
    /\ \E d \in shuffle_pop2(get_deck(manager.config)) :
          hand' = IF impl = METHOD
                  THEN HandState_deal_cards(NewHand(manager.config), d).state
                  ELSE deal_cards(NewHand(manager.config), d).state
    /\ manager' = [manager EXCEPT !.pc = "playing"]
    /\ last' = Call("deal_cards", "none", OK, <<>>, NewHand(manager.config))
    /\ UNCHANGED <<impl, tree, solver, workers, held>>

\* One pass of play_hand's loop: _get_action and process_action.
PlayHandAction ==
    /\ manager.pc = "playing"
    /\ ~hand.is_over
    /\ Len(History(hand)) < MaxActions
    /\ \E action \in _get_action(manager, hand).actions :
          LET r == ProcessAction(hand, action) IN
          /\ hand' = r.state
          /\ last' = Call("process_action", action, r.err, <<>>, hand)
    /\ UNCHANGED <<impl, tree, solver, workers, held, manager>>

\* play_hand after its loop: _update_stacks, and the positions are switched.
PlayHandEnd ==
    /\ manager.pc = "playing"
    /\ hand.is_over
    /\ manager' = [_update_stacks(manager, hand) EXCEPT !.human_pos = (@ + 1) % 2,
                                                         !.pc = "idle",
                                                         !.hands = @ + 1]
    /\ last' = [op |-> "play_hand", pre |-> manager]
    /\ UNCHANGED <<impl, hand, tree, solver, workers, held>>

ManagerNext ==
    \/ PlayHandDeal
    \/ PlayHandAction
    \/ PlayHandEnd

ManagerSpec == ManagerInit /\ [][ManagerNext]_vars

\* C40: at every point of a session human_stack + computer_stack is twice the
\* initial stack; a completed hand has changed each stack by the stack delta
\* of the position its player held, and the human held position 1 in the
\* first hand, 0 in the second and so on in turn.
C40_ChipsConserved ==
    /\ manager.human_stack + manager.computer_stack = 2 * manager.initial_stack
    /\ manager.human_pos = (manager.hands + 1) % 2
    /\ last.op = "play_hand" =>
          /\ manager.human_stack
                = last.pre.human_stack + Stacks(hand)[last.pre.human_pos + 1]
          /\ manager.computer_stack
                = last.pre.computer_stack + Stacks(hand)[other(last.pre.human_pos) + 1]
          /\ manager.human_pos = other(last.pre.human_pos)
          /\ manager.hands = last.pre.hands + 1

\* The second hand of a session has ended, the human in position 0 having
\* won or lost chips over the two hands.
C40_Witness ==
    /\ last.op = "play_hand"
    /\ manager.hands = 2
    /\ last.pre.human_pos = 0
    /\ manager.human_stack # manager.initial_stack
    /\ manager.human_stack # last.pre.human_stack

====
